---- MODULE Spec2Model ----
(***************************************************************************)
(* A model of src/parsing.py: the fuzzy parser PyFuzzyParser, the tree it  *)
(* builds (Scope, Class, Function, Flow, Import, Statement, Name) and the  *)
(* read operations of that tree.                                           *)
(*                                                                         *)
(* The token stream of tokenize.generate_tokens is the input.  A program   *)
(* is a sequence of source lines, the last one with or without its final   *)
(* newline; Tokenize turns it into the tokens the tokenizer yields for it  *)
(* (INDENT / DEDENT / NEWLINE / ENDMARKER included, every token with its   *)
(* line and column).  One action models one iteration of the loop of       *)
(* PyFuzzyParser.parse, one action per branch of its dispatch; the readers *)
(* the branches call are operators over the token sequence and a cursor.   *)
(* Once parse has returned, a client reads the tree: one action per read   *)
(* operation.                                                              *)
(***************************************************************************)
EXTENDS Integers, Sequences, FiniteSets, TLC

VARIABLES
    tokens,      \* the tokens self.gen yields, in order
    pos,         \* number of tokens pulled from self.gen (self.current = tokens[pos])
    nodes,       \* the tree: node id -> record; id 1 is self.top
    scope,       \* self.scope, a node id
    freshscope,  \* local freshscope of parse
    decorators,  \* local decorators of parse
    status,      \* "parsing", "returned" (parse returned self.top) or "raised"
    exc,         \* the exception that left parse, "" when none
    text,        \* the source text: the lines tokens was made from
    result,      \* the outcome of the last read operation of a client
    calls,       \* number of read operations made
    user_line,   \* self.user_line, NoLine when it is None
    user_scope   \* self.user_scope, NoNode as long as it is not set

vars == <<tokens, pos, nodes, scope, freshscope, decorators, status, exc,
          text, result, calls, user_line, user_scope>>

-----------------------------------------------------------------------------
(* Bounds of the model *)

MaxLines == 2          \* lines of a source text
MaxItems == 2          \* items of an import list, targets of a for loop
MaxCalls == 1          \* read operations a client makes on the tree

-----------------------------------------------------------------------------
(* Values *)

NoLine == -1                      \* line_end = None
NoNode == 0                       \* a reference that is None
None == [kind |-> "None"]         \* a value that is None
IsNone(v) == v.kind = "None"

top == 1                          \* self.top

Last(s) == s[Len(s)]

RECURSIVE JoinDots(_)
JoinDots(names) ==
    IF Len(names) = 0 THEN ""
    ELSE IF Len(names) = 1 THEN names[1]
    ELSE names[1] \o "." \o JoinDots(Tail(names))

Name(names, indent, line_nr, line_end) ==
    [kind |-> "Name", names |-> names, indent |-> indent,
     line_nr |-> line_nr, line_end |-> line_end, parent |-> NoNode]

Statement(code, set_vars, used_funcs, used_vars, indent, line_nr, line_end) ==
    [kind |-> "Statement", code |-> code, set_vars |-> set_vars,
     used_funcs |-> used_funcs, used_vars |-> used_vars, indent |-> indent,
     line_nr |-> line_nr, line_end |-> line_end, parent |-> NoNode]

\* A node of the arena.  Every node carries every field; the fields a kind
\* does not have keep the values given here.
Blank ==
    [kind |-> "", indent |-> 0, line_nr |-> 0, line_end |-> NoLine,
     parent |-> NoNode,
     subscopes |-> <<>>, imports |-> <<>>, statements |-> <<>>,
     global_vars |-> <<>>, docstr |-> <<>>,
     name |-> None, params |-> <<>>, supers |-> <<>>, decorators |-> <<>>,
     command |-> "", statement |-> None, set_vars |-> <<>>, next |-> NoNode,
     code |-> "", used_funcs |-> <<>>, used_vars |-> <<>>,
     namespace |-> None, alias |-> None, from_ns |-> None, star |-> FALSE]

Scope(indent, line_nr) ==
    [Blank EXCEPT !.kind = "Scope", !.indent = indent, !.line_nr = line_nr]

Class(name, supers, indent, line_nr) ==
    [Blank EXCEPT !.kind = "Class", !.indent = indent, !.line_nr = line_nr,
                  !.name = name, !.supers = supers]

Function(name, params, indent, line_nr) ==
    [Blank EXCEPT !.kind = "Function", !.indent = indent, !.line_nr = line_nr,
                  !.name = name, !.params = params]

Flow(command, statement, indent, line_nr, set_vars) ==
    [Blank EXCEPT !.kind = "Flow", !.indent = indent, !.line_nr = line_nr,
                  !.command = command, !.statement = statement,
                  !.set_vars = set_vars]

Import(indent, line_nr, line_end, namespace, alias, from_ns, star) ==
    [Blank EXCEPT !.kind = "Import", !.indent = indent, !.line_nr = line_nr,
                  !.line_end = line_end, !.namespace = namespace,
                  !.alias = alias, !.from_ns = from_ns, !.star = star]

StatementNode(s) ==
    [Blank EXCEPT !.kind = "Statement", !.indent = s.indent,
                  !.line_nr = s.line_nr, !.line_end = s.line_end,
                  !.code = s.code, !.set_vars = s.set_vars,
                  !.used_funcs = s.used_funcs, !.used_vars = s.used_vars]

-----------------------------------------------------------------------------
(* The token stream *)

T(type, tok) == [type |-> type, tok |-> tok]
Nm(tok) == T("NAME", tok)
Op(tok) == T("OP", tok)
Str(tok) == T("STRING", tok)
Num(tok) == T("NUMBER", tok)

RECURSIVE Spaces(_)
Spaces(k) == IF k = 0 THEN "" ELSE " " \o Spaces(k - 1)

At(t, line, col) ==
    [type |-> t.type, tok |-> t.tok, line |-> line, indent |-> col]

\* The tokens of one line body, the first at column col; the NEWLINE
\* token is there when the line ends with a newline.
RECURSIVE BodyTokens(_, _, _, _)
BodyTokens(body, line, col, newline) ==
    IF body = <<>>
    THEN IF newline THEN <<At(T("NEWLINE", "\n"), line, col)>> ELSE <<>>
    ELSE <<At(Head(body), line, col)>>
         \o BodyTokens(Tail(body), line, col + Len(Head(body).tok) + 1,
                       newline)

RECURSIVE Dedents(_, _, _, _)
Dedents(stack, ind, line, out) ==
    IF Last(stack) > ind
    THEN Dedents(SubSeq(stack, 1, Len(stack) - 1), ind, line,
                 Append(out, At(T("DEDENT", ""), line, ind)))
    ELSE [stack |-> stack, out |-> out]

\* lines[i] = [ind |-> indentation, body |-> the tokens of the line];
\* newline: the last line ends with a newline
RECURSIVE TokLines(_, _, _, _, _)
TokLines(lines, i, stack, out, newline) ==
    IF i > Len(lines)
    THEN Dedents(stack, 0, i, out).out \o <<At(T("ENDMARKER", ""), i, 0)>>
    ELSE LET ln == lines[i]
             d  == Dedents(stack, ln.ind, i, out)
             nl == i < Len(lines) \/ newline
         IN  IF ln.ind > Last(stack)
             THEN TokLines(lines, i + 1, Append(stack, ln.ind),
                           out \o <<At(T("INDENT", Spaces(ln.ind)), i, 0)>>
                               \o BodyTokens(ln.body, i, ln.ind, nl),
                           newline)
             ELSE TokLines(lines, i + 1, d.stack,
                           d.out \o BodyTokens(ln.body, i, ln.ind, nl),
                           newline)

\* the tokens of the source text t = [lines, newline]
Tokenize(t) == TokLines(t.lines, 1, <<0>>, <<>>, t.newline)

\* The tokenizer fails on a dedent to a column that is no enclosing
\* indentation; such a text yields no token stream.
RECURSIVE Indentable(_, _, _)
Indentable(lines, i, stack) ==
    IF i > Len(lines) THEN TRUE
    ELSE LET ind == lines[i].ind
             d   == Dedents(stack, ind, i, <<>>)
         IN  IF ind > Last(stack)
             THEN Indentable(lines, i + 1, Append(stack, ind))
             ELSE Last(d.stack) = ind /\ Indentable(lines, i + 1, d.stack)

-----------------------------------------------------------------------------
(* The readers.  p is the cursor: tokens[p] is self.current.  A reader     *)
(* returns a record; .exc is "" or the exception that leaves it, .pos the  *)
(* cursor at its end, so that the token_type and tok it returns are those  *)
(* of tokens[.pos].                                                        *)

NTok == Len(tokens)

Raised(e, p) == [exc |-> e, pos |-> p]
Stopped == Raised("StopIteration", NTok)     \* self.gen.next() at the end

\* "\n" in tok
HasNewline(tok) == tok = "\n"

\* '=' in tok
HasEq(tok) ==
    tok \in {"=", "==", "!=", "<=", ">=", "+=", "-=", "*=", "/=", "\"a=b\""}

\* the loop of _parsedotname; tokens[p] is the segment read last
RECURSIVE DotLoop(_, _, _)
DotLoop(p, names, first) ==
    IF p + 1 > NTok THEN Stopped
    ELSE IF tokens[p + 1].tok # "." THEN
        [exc |-> "", pos |-> p + 1, arity |-> 5, names |-> names,
         start_indent |-> tokens[first].indent,
         start_line |-> tokens[first].line]
    ELSE IF p + 2 > NTok THEN Stopped
    ELSE IF tokens[p + 2].type # "NAME" THEN
        [exc |-> "", pos |-> p + 2, arity |-> 5, names |-> names,
         start_indent |-> tokens[first].indent,
         start_line |-> tokens[first].line]
    ELSE DotLoop(p + 2, Append(names, tokens[p + 2].tok), first)

\* _parsedotname(pre_used_token); pre: the caller passes self.current.
\* arity is the length of the tuple returned: 2 for return ([], tok).
ParseDotName(p, pre) ==
    IF pre THEN DotLoop(p, <<tokens[p].tok>>, p)
    ELSE IF p + 1 > NTok THEN Stopped
    ELSE IF tokens[p + 1].type # "NAME" /\ tokens[p + 1].tok # "*" THEN
        [exc |-> "", pos |-> p + 1, arity |-> 2, names |-> <<>>,
         start_indent |-> 0, start_line |-> 0]
    ELSE DotLoop(p + 1, <<tokens[p + 1].tok>>, p + 1)

\* _parse_value_list: the rest of an iteration, d the result of
\* self._parsedotname(self.current)
RECURSIVE ValueLoop(_, _), ValueNext(_, _)
ValueNext(value_list, d) ==
    IF d.exc # "" THEN Raised(d.exc, d.pos)
    ELSE IF tokens[d.pos].tok = "in"
    THEN [exc |-> "", pos |-> d.pos,
          value_list |-> IF d.names # <<>>
                         THEN Append(value_list,
                                     Name(d.names, d.start_indent,
                                          d.start_line, tokens[d.pos].line))
                         ELSE value_list]
    ELSE IF d.pos + 1 > NTok THEN Stopped
    ELSE ValueLoop(d.pos + 1,
                   IF d.names # <<>>
                   THEN Append(value_list,
                               Name(d.names, d.start_indent, d.start_line,
                                    tokens[d.pos].line))
                   ELSE value_list)

\* the while loop of _parse_value_list; tokens[p] is the token read last
ValueLoop(p, value_list) ==
    IF tokens[p].tok # "in" /\ tokens[p].type # "NEWLINE"
    THEN ValueNext(value_list, ParseDotName(p, TRUE))
    ELSE [exc |-> "", pos |-> p, value_list |-> value_list]

\* _parse_value_list(), as parse calls it (no pre_used_token)
ParseValueList(p) ==
    IF p + 1 > NTok THEN Stopped ELSE ValueLoop(p + 1, <<>>)

\* while tok != "," and "\n" not in tok: self.next()
RECURSIVE SkipToComma(_)
SkipToComma(p) ==
    IF tokens[p].tok # "," /\ ~HasNewline(tokens[p].tok) THEN
        IF p + 1 > NTok THEN Stopped ELSE SkipToComma(p + 1)
    ELSE [exc |-> "", pos |-> p]

RECURSIVE ImportLoop(_, _), ImportName(_, _), ImportAlias(_, _, _),
          ImportRest(_, _)

\* _parseimportlist: the end of an iteration, sk the result of the inner
\* while loop; imports is a sequence of pairs <<i, name2>>
ImportRest(imports, sk) ==
    IF sk.exc # "" THEN Raised(sk.exc, sk.pos)
    ELSE IF tokens[sk.pos].tok # ","
    THEN [exc |-> "", pos |-> sk.pos, imports |-> imports]
    ELSE ImportLoop(sk.pos, imports)

\* _parseimportlist: if tok == 'as', d2 the result of the second
\* self._parsedotname(), whose start_line replaces that of the name
ImportAlias(imports, d, d2) ==
    IF d2.exc # "" THEN Raised(d2.exc, d2.pos)
    ELSE IF d2.arity # 5 THEN Raised("ValueError", d2.pos)
    ELSE ImportRest(
             Append(imports,
                    << Name(d.names, d.start_indent, d2.start_line,
                            tokens[d2.pos].line),
                       Name(d2.names, d2.start_indent, d2.start_line,
                            tokens[d2.pos].line) >>),
             SkipToComma(d2.pos))

\* _parseimportlist: d the result of the first self._parsedotname()
ImportName(imports, d) ==
    IF d.exc # "" THEN Raised(d.exc, d.pos)
    ELSE IF d.arity # 5 THEN Raised("ValueError", d.pos)
    ELSE IF d.names = <<>>
    THEN [exc |-> "", pos |-> d.pos, imports |-> imports]
    ELSE IF tokens[d.pos].tok = "as"
    THEN ImportAlias(imports, d, ParseDotName(d.pos, FALSE))
    ELSE ImportRest(
             Append(imports,
                    << Name(d.names, d.start_indent, d.start_line,
                            tokens[d.pos].line),
                       None >>),
             SkipToComma(d.pos))

\* the loop of _parseimportlist
ImportLoop(p, imports) == ImportName(imports, ParseDotName(p, FALSE))

ParseImportList(p) == ImportLoop(p, <<>>)

always_break == {";", "import", "from", "class", "def", "try", "except",
                 "finally"}

\* _parse_statement: the effect of a token that is neither 'as' nor the
\* start of a name on the locals a: string, set_vars, used_funcs,
\* used_vars, level, and word: string is not empty and
\* re.match(r'[\w\d\'"]', string[-1])
StmtToken(a, token_type, tok) ==
    IF token_type = "NAME"
       /\ tok \in {"return", "yield", "del", "raise", "assert"}
    THEN [a EXCEPT !.string = tok \o " ", !.word = FALSE]
    ELSE IF token_type = "NAME"            \* print, exec
    THEN [a EXCEPT !.string = "", !.word = FALSE]
    ELSE IF HasEq(tok) /\ tok \notin {">=", "<=", "==", "!="}
    THEN [a EXCEPT !.set_vars = a.used_vars, !.used_vars = <<>>,
                   !.string = a.string \o tok, !.word = FALSE]
    ELSE IF tok \in {"{", "(", "["}
    THEN [a EXCEPT !.level = a.level + 1,
                   !.string = a.string \o tok, !.word = FALSE]
    ELSE IF tok \in {"}", ")", "]"}
    THEN [a EXCEPT !.level = a.level - 1,
                   !.string = a.string \o tok, !.word = FALSE]
    ELSE [a EXCEPT !.string = a.string \o tok,
                   !.word = IF tok = "" THEN a.word
                            ELSE token_type \in {"STRING", "NUMBER"}]

RECURSIVE StmtLoop(_, _, _, _, _), StmtAs(_, _, _, _, _),
          StmtName(_, _, _, _, _)

\* _parse_statement: if tok == 'as' and the next token is a name; d the
\* result of self._parsedotname(self.current)
StmtAs(d, a, breaks, indent, line_start) ==
    IF d.exc # "" THEN Raised(d.exc, d.pos)
    ELSE StmtLoop(d.pos,
                  [a EXCEPT !.string = a.string \o " as " \o JoinDots(d.names),
                            !.word = TRUE,
                            !.set_vars = Append(a.set_vars,
                                Name(d.names, d.start_indent, d.start_line,
                                     tokens[d.pos].line))],
                  breaks, indent, line_start)

\* a reader that takes every name for a read name, called or not
StmtNameAllRead(d, a, breaks, indent, line_start) ==
    IF d.exc # "" THEN Raised(d.exc, d.pos)
    ELSE StmtLoop(d.pos,
           [a EXCEPT
              !.used_vars =
                  Append(@, Name(d.names, d.start_indent, d.start_line,
                                 tokens[d.pos].line)),
              !.string = (IF a.word THEN a.string \o " " ELSE a.string)
                         \o JoinDots(d.names),
              !.word = TRUE],
           breaks, indent, line_start)

\* _parse_statement: a name that is no statement keyword; d the result of
\* self._parsedotname(self.current)
StmtName(d, a, breaks, indent, line_start) ==
    IF d.exc # "" THEN Raised(d.exc, d.pos)
    ELSE StmtLoop(d.pos,
           [a EXCEPT
              !.used_funcs =
                  IF tokens[d.pos].tok = "("
                  THEN Append(@, Name(d.names, d.start_indent, d.start_line,
                                      tokens[d.pos].line))
                  ELSE @,
              !.used_vars =
                  IF tokens[d.pos].tok # "(" /\ d.names[1] # "global"
                  THEN Append(@, Name(d.names, d.start_indent, d.start_line,
                                      tokens[d.pos].line))
                  ELSE @,
              !.string = (IF a.word THEN a.string \o " " ELSE a.string)
                         \o JoinDots(d.names),
              !.word = TRUE],
           breaks, indent, line_start)

\* the while loop of _parse_statement; tokens[p] is the token read last.
\* breaks, indent and line_start do not change in the loop.
StmtLoop(p, a, breaks, indent, line_start) ==
    IF tokens[p].tok \in always_break
       \/ (tokens[p].tok \in breaks /\ a.level <= 0) THEN
        IF a.string = "" THEN [exc |-> "", pos |-> p, stmt |-> None]
        ELSE [exc |-> "", pos |-> p,
              stmt |-> Statement(a.string, a.set_vars, a.used_funcs,
                                 a.used_vars, indent, line_start,
                                 tokens[p].line)]
    ELSE IF tokens[p].tok = "as" THEN
        IF p + 1 > NTok THEN Stopped
        ELSE IF tokens[p + 1].type = "NAME"
        THEN StmtAs(ParseDotName(p + 1, TRUE), a, breaks, indent, line_start)
        ELSE StmtLoop(p + 1,
                      [a EXCEPT !.string = a.string \o " as ", !.word = FALSE],
                      breaks, indent, line_start)
    ELSE IF tokens[p].type = "NAME"
            /\ tokens[p].tok \notin {"return", "yield", "del", "raise",
                                     "assert", "print", "exec"}
    THEN StmtName(ParseDotName(p, TRUE), a, breaks, indent, line_start)
    ELSE IF p + 1 > NTok THEN Stopped
    ELSE StmtLoop(p + 1, StmtToken(a, tokens[p].type, tokens[p].tok),
                  breaks, indent, line_start)

\* _parse_statement from its first token tokens[p] on
StmtFrom(p, breaks) ==
    StmtLoop(p,
             [string |-> "", set_vars |-> <<>>, used_funcs |-> <<>>,
              used_vars |-> <<>>, level |-> 0, word |-> FALSE],
             breaks, tokens[p].indent, tokens[p].line)

\* _parse_statement(pre_used_token, added_breaks); pre: the caller passes
\* self.current
ParseStatement(p, pre, added_breaks) ==
    IF ~pre /\ p + 1 > NTok THEN Stopped
    ELSE StmtFrom(IF pre THEN p ELSE p + 1,
                  {"\n", ":", ")"} \cup added_breaks)

RECURSIVE ParenLoop(_, _), ParenNext(_, _)

\* _parseparen: the rest of an iteration, r the result of
\* self._parse_statement(added_breaks=',')
ParenNext(names, r) ==
    IF r.exc # "" THEN Raised(r.exc, r.pos)
    ELSE IF tokens[r.pos].tok \in {")", "\n", ":"}
    THEN [exc |-> "", pos |-> r.pos,
          names |-> IF IsNone(r.stmt) THEN names ELSE Append(names, r.stmt)]
    ELSE ParenLoop(r.pos,
                   IF IsNone(r.stmt) THEN names ELSE Append(names, r.stmt))

\* the loop of _parseparen
ParenLoop(p, names) == ParenNext(names, ParseStatement(p, FALSE, {","}))

ParseParen(p) == ParenLoop(p, <<>>)

\* a function reader that does not ask for the colon after the parameters
FunctionParamsAnyColon(p, indent, params) ==
    IF params.exc # "" THEN Raised(params.exc, params.pos)
    ELSE IF params.pos + 1 > NTok THEN Stopped
    ELSE [exc |-> "", pos |-> params.pos + 1,
          func |-> Function(Name(<<tokens[p + 1].tok>>, tokens[p + 1].indent,
                                 tokens[p + 1].line, tokens[p + 1].line),
                            params.names, indent, tokens[p].line)]

\* _parsefunction: from params = self._parseparen() on
FunctionParams(p, indent, params) ==
    IF params.exc # "" THEN Raised(params.exc, params.pos)
    ELSE IF params.pos + 1 > NTok THEN Stopped
    ELSE IF tokens[params.pos + 1].tok # ":" THEN
        [exc |-> "", pos |-> params.pos + 1, func |-> None]
    ELSE [exc |-> "", pos |-> params.pos + 1,
          func |-> Function(Name(<<tokens[p + 1].tok>>, tokens[p + 1].indent,
                                 tokens[p + 1].line, tokens[p + 1].line),
                            params.names, indent, tokens[p].line)]

\* _parsefunction(indent); tokens[p] is the def.  .func is None when the
\* reader returns None.
ParseFunction(p, indent) ==
    IF p + 1 > NTok THEN Stopped
    ELSE IF tokens[p + 1].type # "NAME" THEN
        [exc |-> "", pos |-> p + 1, func |-> None]
    ELSE IF p + 2 > NTok THEN Stopped
    ELSE IF tokens[p + 2].tok # "(" THEN
        [exc |-> "", pos |-> p + 2, func |-> None]
    ELSE FunctionParams(p, indent, ParseParen(p + 2))

\* _parseclass: from super = self._parseparen() on
ClassSupers(p, indent, super) ==
    IF super.exc # "" THEN Raised(super.exc, super.pos)
    ELSE [exc |-> "", pos |-> super.pos,
          cls |-> Class(Name(<<tokens[p + 1].tok>>, tokens[p + 1].indent,
                             tokens[p + 1].line, tokens[p + 1].line),
                        super.names, indent, tokens[p].line)]

\* _parseclass(indent); tokens[p] is the class.
ParseClass(p, indent) ==
    IF p + 1 > NTok THEN Stopped
    ELSE IF tokens[p + 1].type # "NAME" THEN
        [exc |-> "", pos |-> p + 1, cls |-> None]
    ELSE IF p + 2 > NTok THEN Stopped
    ELSE IF tokens[p + 2].tok = "(" THEN ClassSupers(p, indent, ParseParen(p + 2))
    ELSE IF tokens[p + 2].tok # ":" THEN
        [exc |-> "", pos |-> p + 2, cls |-> None]
    ELSE [exc |-> "", pos |-> p + 2,
          cls |-> Class(Name(<<tokens[p + 1].tok>>, tokens[p + 1].indent,
                             tokens[p + 1].line, tokens[p + 1].line),
                        <<>>, indent, tokens[p].line)]

\* Name.__eq__(self, other)
Name_eq(self, other) ==
    /\ self.names = other.names
    /\ self.indent = other.indent
    /\ self.line_nr = self.line_nr

-----------------------------------------------------------------------------
(* The tree operations parse uses *)

EmptyStr == [kind |-> "str", value |-> ""]     \* the default from_ns=''

\* Scope.add_scope(sub, decorators); the new node gets the next free id
add_scope(nd, self, sub, decos) ==
    LET id == Len(nd) + 1 IN
    Append([nd EXCEPT ![self].subscopes = Append(@, id)],
           [sub EXCEPT !.parent = self, !.decorators = decos])

\* Scope.add_statement(stmt), stmt a Flow or a Statement node
add_statement(nd, self, stmt) ==
    LET id == Len(nd) + 1 IN
    Append([nd EXCEPT ![self].statements = Append(@, id)],
           [stmt EXCEPT !.parent = self])

\* Scope.add_import(imp)
add_import(nd, self, imp) ==
    LET id == Len(nd) + 1 IN
    Append([nd EXCEPT ![self].imports = Append(@, id)], imp)

\* Scope.add_global(name)
add_global(nd, self, name) ==
    [nd EXCEPT ![self].global_vars = Append(@, name)]

\* the Flow at the end of the chain that starts at self
RECURSIVE ChainEnd(_, _)
ChainEnd(nd, self) ==
    IF nd[self].next # NoNode THEN ChainEnd(nd, nd[self].next) ELSE self

\* a set_next that leaves the parent of the Flow it links unset
set_nextNoParent(nd, self, next) ==
    Append([nd EXCEPT ![ChainEnd(nd, self)].next = Len(nd) + 1], next)

\* Flow.set_next(next)
set_next(nd, self, next) ==
    LET id  == Len(nd) + 1
        end == ChainEnd(nd, self)
    IN  Append([nd EXCEPT ![end].next = id],
               [next EXCEPT !.parent = nd[end].parent])

-----------------------------------------------------------------------------
(* Scope.add_docstr, on strings as sequences of characters *)

DQ == "\""
SQ == "'"

\* string.find(c): the 0-based index of the first c, -1 when there is none
Find(string, c) ==
    IF \E i \in 1..Len(string) : string[i] = c
    THEN (CHOOSE i \in 1..Len(string) :
              string[i] = c /\ \A j \in 1..(i - 1) : string[j] # c) - 1
    ELSE -1

\* string[index:] for index >= -1
SliceFrom(string, index) ==
    IF Len(string) = 0 THEN <<>>
    ELSE IF index = -1 THEN <<string[Len(string)]>>
    ELSE SubSeq(string, index + 1, Len(string))

\* d.replace(c, ' ')
ReplaceChar(d, c) == [i \in 1..Len(d) |-> IF d[i] = c THEN " " ELSE d[i]]

\* d.replace('  ', ' '): one pass, left to right, over disjoint matches
RECURSIVE ReplaceDouble(_)
ReplaceDouble(d) ==
    IF Len(d) < 2 THEN d
    ELSE IF d[1] = " " /\ d[2] = " "
    THEN <<" ">> \o ReplaceDouble(SubSeq(d, 3, Len(d)))
    ELSE <<d[1]>> \o ReplaceDouble(Tail(d))

\* while d.find('  ') > -1: d = d.replace('  ', ' ')
RECURSIVE Collapse(_)
Collapse(d) ==
    IF \E i \in 1..(Len(d) - 1) : d[i] = " " /\ d[i + 1] = " "
    THEN Collapse(ReplaceDouble(d)) ELSE d

StripChars == {DQ, SQ, "\t", " "}

\* while d[0] in '"\'\t ': d = d[1:]      (d[0] of '' is an IndexError)
RECURSIVE StripLeft(_)
StripLeft(d) ==
    IF Len(d) = 0 THEN [exc |-> "IndexError", d |-> d]
    ELSE IF d[1] \in StripChars THEN StripLeft(Tail(d))
    ELSE [exc |-> "", d |-> d]

\* while d[-1] in '"\'\t ': d = d[:-1]
RECURSIVE StripRight(_)
StripRight(d) ==
    IF Len(d) = 0 THEN [exc |-> "IndexError", d |-> d]
    ELSE IF d[Len(d)] \in StripChars THEN StripRight(SubSeq(d, 1, Len(d) - 1))
    ELSE [exc |-> "", d |-> d]

\* the index add_docstr cuts the prefix at
DocIndex(string) ==
    LET index1 == Find(string, SQ)
        index2 == Find(string, DQ)
    IN  IF index1 < index2 /\ index1 > -1 THEN index1 ELSE index2

\* add_docstr: the second strip loop, on the result l of the first
StripEnds(l) == IF l.exc # "" THEN l ELSE StripRight(l.d)

\* Scope.add_docstr(string): .d is the value stored in self.docstr
add_docstr(string) ==
    StripEnds(StripLeft(Collapse(ReplaceChar(
        ReplaceChar(SliceFrom(string, DocIndex(string)), "\n"), "\t"))))

-----------------------------------------------------------------------------
(* String literal tokens: the text of a STRING token and its characters *)

RECURSIVE Text(_)
Text(chars) == IF chars = <<>> THEN "" ELSE Head(chars) \o Text(Tail(chars))

StringLiterals ==
    { <<DQ, "d", DQ>>,                 \* "d"
      <<SQ, "d", SQ>>,                 \* 'd'
      <<DQ, DQ>>,                      \* ""
      <<"r", DQ, "d", " ", " ", "e", DQ>>,    \* r"d  e"
      <<DQ, "a", "=", "b", DQ>>,       \* "a=b"
      <<DQ, DQ, DQ, "d", DQ, DQ, DQ>>, \* """d"""
      <<"u", DQ, "d", "\t", "e", DQ>> }     \* u"d<tab>e"

CharsOf(tok) == CHOOSE chars \in StringLiterals : Text(chars) = tok

-----------------------------------------------------------------------------
(* One iteration of the loop of parse *)

\* a dedent loop that leaves line_end of the scope it pops unset
CloseScopeNoStamp(nd, sc, line_nr) == nd

\* self.scope.line_end = self.line_nr, of both dedent loops
CloseScope(nd, sc, line_nr) == [nd EXCEPT ![sc].line_end = line_nr]

\* while token_type == tokenize.DEDENT and self.scope != self.top
RECURSIVE DedentLoop(_, _, _)
DedentLoop(p, sc, nd) ==
    IF tokens[p].type = "DEDENT" /\ sc # top THEN
        IF p + 1 > NTok
        THEN [exc |-> "StopIteration", pos |-> NTok, scope |-> sc, nodes |-> nd]
        ELSE IF tokens[p + 1].indent <= nd[sc].indent
        THEN DedentLoop(p + 1, nd[sc].parent,
                        CloseScope(nd, sc, tokens[p + 1].line))
        ELSE DedentLoop(p + 1, sc, nd)
    ELSE [exc |-> "", pos |-> p, scope |-> sc, nodes |-> nd]

\* a second loop that closes no scope
RecoveryLoopOff(p, sc, nd) == [exc |-> "", pos |-> p, scope |-> sc, nodes |-> nd]

\* while indent <= self.scope.indent and token_type in [tokenize.NAME]
\*       and self.scope != self.top
RECURSIVE RecoveryLoop(_, _, _)
RecoveryLoop(p, sc, nd) ==
    IF sc # top /\ tokens[p].type = "NAME" /\ tokens[p].indent <= nd[sc].indent
    THEN RecoveryLoop(p, nd[sc].parent, CloseScope(nd, sc, tokens[p].line))
    ELSE [exc |-> "", pos |-> p, scope |-> sc, nodes |-> nd]

\* the second loop, entered with the result d of the first
Recover(d) ==
    IF d.exc # "" THEN d ELSE RecoveryLoop(d.pos, d.scope, d.nodes)

\* self.next() at the head of the iteration, then the two dedent loops:
\* the token the dispatch sees is tokens[.pos], self.scope is .scope
Head0 == Recover(DedentLoop(pos + 1, scope, nodes))

\* next: if self.line_nr == self.user_line: self.user_scope = self.scope,
\* for the token tokens[p] pulled while self.scope is sc
Seen(p, sc, us) == IF tokens[p].line = user_line THEN sc ELSE us

\* self.user_scope after the calls of next in the explicit-dedent loop:
\* each token is pulled before the scope it may close is left
RECURSIVE DedentSeen(_, _, _, _)
DedentSeen(p, sc, nd, us) ==
    IF tokens[p].type = "DEDENT" /\ sc # top /\ p + 1 <= NTok
    THEN DedentSeen(p + 1,
                    IF tokens[p + 1].indent <= nd[sc].indent
                    THEN nd[sc].parent ELSE sc,
                    nd, Seen(p + 1, sc, us))
    ELSE us

\* self.user_scope after the tokens h.pos + 1 .. p, which the branch of
\* the iteration pulls while self.scope is h.scope
ReaderSeen(h, p, us) ==
    IF \E i \in (h.pos + 1)..p : tokens[i].line = user_line
    THEN h.scope ELSE us

\* self.user_scope at the end of the iteration that ends at cursor p
Located(p) ==
    IF pos + 1 > NTok THEN user_scope
    ELSE ReaderSeen(Head0, p,
                    DedentSeen(pos + 1, scope, nodes,
                               Seen(pos + 1, scope, user_scope)))

extended_flow == {"else", "except", "finally"}
flow_toks == {"if", "while", "try", "with"} \cup extended_flow
BackQuote == "backquote"           \* the text of the token of a back quote
statement_toks == {"{", "[", "(", BackQuote}

\* the branch of the if / elif chain of parse that takes token t
Branch(t) ==
    IF t.tok = "def" THEN "def"
    ELSE IF t.tok = "class" THEN "class"
    ELSE IF t.tok = "import" THEN "import"
    ELSE IF t.tok = "from" THEN "from"
    ELSE IF t.tok = "for" THEN "for"
    ELSE IF t.tok \in flow_toks THEN "flow"
    ELSE IF t.tok = "global" THEN "global"
    ELSE IF t.tok = "@" THEN "decorator"
    ELSE IF t.tok = "pass" THEN "pass"
    ELSE IF t.type = "STRING" THEN "docstr"
    ELSE IF t.type = "NAME" \/ t.tok \in statement_toks THEN "statement"
    ELSE "none"

\* the head h of the iteration reaches the dispatch, which takes branch b
Dispatched(h, b) == h.exc = "" /\ Branch(tokens[h.pos]) = b

\* the iteration dispatches on branch b
Dispatch(b) ==
    /\ status = "parsing"
    /\ pos + 1 <= NTok
    /\ Dispatched(Head0, b)

\* the iteration ends at cursor p with tree nd and self.scope = sc;
\* e is the exception a reader raised, "" when none.  StopIteration
\* is caught by parse, which returns self.top; any other exception
\* leaves parse.
Finish(e, p, nd, sc) ==
    /\ pos' = p
    /\ nodes' = nd
    /\ scope' = sc
    /\ status' = IF e = "" THEN "parsing"
                 ELSE IF e = "StopIteration" THEN "returned" ELSE "raised"
    /\ exc' = IF e = "StopIteration" THEN "" ELSE e
    /\ user_scope' = Located(p)
    /\ UNCHANGED <<tokens, text, result, calls, user_line>>

\* the generator is exhausted in the explicit-dedent loop
HeadStopped(h) == h.exc # "" /\ Finish(h.exc, h.pos, h.nodes, h.scope)

\* the generator is exhausted at the head of the iteration or in the
\* explicit-dedent loop: except StopIteration: break; return self.top
EndOfInput ==
    /\ status = "parsing"
    /\ IF pos + 1 > NTok
       THEN Finish("StopIteration", NTok, nodes, scope)
       ELSE HeadStopped(Head0)
    /\ UNCHANGED <<freshscope, decorators>>

\* the def branch after func = self._parsefunction(indent), r its result
DefResult(h, r) ==
    IF r.exc # "" \/ IsNone(r.func)
    THEN /\ Finish(r.exc, r.pos, h.nodes, h.scope)
         /\ UNCHANGED <<freshscope, decorators>>
    ELSE /\ Finish("", r.pos,
                   add_scope(h.nodes, h.scope, r.func, decorators),
                   Len(h.nodes) + 1)
         /\ freshscope' = TRUE
         /\ decorators' = <<>>

DefBranch(h) == DefResult(h, ParseFunction(h.pos, tokens[h.pos].indent))

\* if tok == 'def'
ParseDef == Dispatch("def") /\ DefBranch(Head0)

\* the class branch after cls = self._parseclass(indent), r its result
ClassResult(h, r) ==
    IF r.exc # "" \/ IsNone(r.cls)
    THEN /\ Finish(r.exc, r.pos, h.nodes, h.scope)
         /\ UNCHANGED <<freshscope, decorators>>
    ELSE /\ Finish("", r.pos,
                   add_scope(h.nodes, h.scope, r.cls, decorators),
                   Len(h.nodes) + 1)
         /\ freshscope' = TRUE
         /\ decorators' = <<>>

ClassBranch(h) == ClassResult(h, ParseClass(h.pos, tokens[h.pos].indent))

\* elif tok == 'class'
ParseClassDef == Dispatch("class") /\ ClassBranch(Head0)

\* i = Import(indent, start_line, self.line_nr, m, alias) of the import
\* branch (mod is None), and the Import of the from branch
NewImport(name, alias, indent, start_line, line_nr, mod) ==
    IF IsNone(mod)
    THEN Import(indent, start_line, line_nr, name, alias, EmptyStr, FALSE)
    ELSE IF name.names[1] = "*"
    THEN Import(indent, start_line, line_nr, None, alias, mod, TRUE)
    ELSE Import(indent, start_line, line_nr, name, alias, mod, FALSE)

\* for m, alias in imports: self.scope.add_import(Import(...))
RECURSIVE AddImports(_, _, _, _, _, _, _)
AddImports(nd, sc, imports, indent, start_line, line_nr, mod) ==
    IF imports = <<>> THEN nd
    ELSE AddImports(add_import(nd, sc,
                        NewImport(Head(imports)[1], Head(imports)[2],
                                  indent, start_line, line_nr, mod)),
                    sc, Tail(imports), indent, start_line, line_nr, mod)

\* the import and from branches after self._parseimportlist(), r its
\* result
ImportResult(h, r, mod) ==
    IF r.exc # ""
    THEN /\ Finish(r.exc, r.pos, h.nodes, h.scope)
         /\ UNCHANGED freshscope
    ELSE /\ Finish("", r.pos,
                   AddImports(h.nodes, h.scope, r.imports,
                              tokens[h.pos].indent, tokens[h.pos].line,
                              tokens[r.pos].line, mod),
                   h.scope)
         /\ freshscope' = FALSE

ImportBranch(h) == ImportResult(h, ParseImportList(h.pos), None)

\* elif tok == 'import'
ParseImport ==
    /\ Dispatch("import")
    /\ ImportBranch(Head0)
    /\ UNCHANGED decorators

\* the from branch after self._parsedotname(), d its result
FromResult(h, d) ==
    IF d.exc # ""
    THEN /\ Finish(d.exc, d.pos, h.nodes, h.scope)
         /\ UNCHANGED freshscope
    ELSE IF d.arity # 5
    THEN /\ Finish("ValueError", d.pos, h.nodes, h.scope)
         /\ UNCHANGED freshscope
    ELSE IF d.names = <<>> \/ tokens[d.pos].tok # "import"
    THEN /\ Finish("", d.pos, h.nodes, h.scope)
         /\ UNCHANGED freshscope
    ELSE ImportResult(h, ParseImportList(d.pos),
                      Name(d.names, d.start_indent, d.start_line,
                           tokens[d.pos].line))

FromBranch(h) == FromResult(h, ParseDotName(h.pos, FALSE))

\* elif tok == 'from'
ParseFrom ==
    /\ Dispatch("from")
    /\ FromBranch(Head0)
    /\ UNCHANGED decorators

\* the for branch after statement, tok = self._parse_statement()
ForStatement(h, vl, st) ==
    IF st.exc # "" THEN Finish(st.exc, st.pos, h.nodes, h.scope)
    ELSE IF tokens[st.pos].tok # ":"
    THEN Finish("", st.pos, h.nodes, h.scope)
    ELSE Finish("", st.pos,
                add_statement(h.nodes, h.scope,
                    Flow("for", st.stmt, tokens[h.pos].indent,
                         tokens[st.pos].line, vl.value_list)),
                Len(h.nodes) + 1)

\* the for branch after value_list, tok = self._parse_value_list()
ForTargets(h, vl) ==
    IF vl.exc # "" THEN Finish(vl.exc, vl.pos, h.nodes, h.scope)
    ELSE IF tokens[vl.pos].tok # "in"
    THEN Finish("", vl.pos, h.nodes, h.scope)
    ELSE ForStatement(h, vl, ParseStatement(vl.pos, FALSE, {}))

ForBranch(h) == ForTargets(h, ParseValueList(h.pos))

\* elif tok == 'for'
ParseFor ==
    /\ Dispatch("for")
    /\ ForBranch(Head0)
    /\ UNCHANGED <<freshscope, decorators>>

\* a flow branch that adds every Flow to the statements of self.scope
AttachFlowAsStatement(h, p, command, f) ==
    Finish("", p, add_statement(h.nodes, h.scope, f), Len(h.nodes) + 1)

\* the Flow f is built for command: attach it and make it self.scope
AttachFlow(h, p, command, f) ==
    IF command \in extended_flow THEN
        IF h.nodes[h.scope].statements = <<>>
        THEN Finish("IndexError", p, h.nodes, h.scope)
        ELSE IF h.nodes[Last(h.nodes[h.scope].statements)].kind # "Flow"
        THEN Finish("AttributeError", p, h.nodes, h.scope)
        ELSE Finish("", p,
                    set_next(h.nodes, Last(h.nodes[h.scope].statements), f),
                    Len(h.nodes) + 1)
    ELSE Finish("", p, add_statement(h.nodes, h.scope, f), Len(h.nodes) + 1)

\* the except statement defines a var: d the result of self._parsedotname()
ExceptVar(h, st, d) ==
    IF d.exc # "" THEN Finish(d.exc, d.pos, h.nodes, h.scope)
    ELSE IF d.arity # 5
    THEN Finish("ValueError", d.pos, h.nodes, h.scope)
    ELSE IF IsNone(st.stmt)
    THEN Finish("AttributeError", d.pos, h.nodes, h.scope)
    ELSE IF tokens[d.pos].tok # ":"
    THEN Finish("", d.pos, h.nodes, h.scope)
    ELSE AttachFlow(h, d.pos, tokens[h.pos].tok,
             Flow(tokens[h.pos].tok,
                  [st.stmt EXCEPT
                     !.set_vars = Append(@, Name(d.names, d.start_indent,
                                                 d.start_line,
                                                 tokens[d.pos].line)),
                     !.code = @ \o "," \o JoinDots(d.names)],
                  tokens[h.pos].indent, tokens[d.pos].line, <<>>))

\* the flow branch after self._parse_statement(added_breaks=added_breaks)
FlowStatement(h, added_breaks, st) ==
    IF st.exc # "" THEN Finish(st.exc, st.pos, h.nodes, h.scope)
    ELSE IF tokens[st.pos].tok \in added_breaks
    THEN ExceptVar(h, st, ParseDotName(st.pos, FALSE))
    ELSE IF tokens[st.pos].tok # ":"
    THEN Finish("", st.pos, h.nodes, h.scope)
    ELSE AttachFlow(h, st.pos, tokens[h.pos].tok,
             Flow(tokens[h.pos].tok, st.stmt, tokens[h.pos].indent,
                  tokens[st.pos].line, <<>>))

\* if command == 'except': added_breaks += (',')
FlowBreaks(h, added_breaks) ==
    FlowStatement(h, added_breaks, ParseStatement(h.pos, FALSE, added_breaks))

FlowBranch(h) ==
    FlowBreaks(h, IF tokens[h.pos].tok = "except" THEN {","} ELSE {})

\* elif tok in ['if', 'while', 'try', 'with'] + extended_flow
ParseFlow ==
    /\ Dispatch("flow")
    /\ FlowBranch(Head0)
    /\ UNCHANGED <<freshscope, decorators>>

\* for name in stmt.used_vars: self.top.add_global(name)
RECURSIVE AddGlobals(_, _)
AddGlobals(nd, names) ==
    IF names = <<>> THEN nd
    ELSE AddGlobals(add_global(nd, top, Head(names)), Tail(names))

\* the global branch after stmt, tok = self._parse_statement(self.current)
GlobalStatement(h, st) ==
    IF st.exc # "" \/ IsNone(st.stmt)
    THEN Finish(st.exc, st.pos, h.nodes, h.scope)
    ELSE Finish("", st.pos,
                AddGlobals(add_statement(h.nodes, h.scope,
                                         StatementNode(st.stmt)),
                           st.stmt.used_vars),
                h.scope)

GlobalBranch(h) == GlobalStatement(h, ParseStatement(h.pos, TRUE, {}))

\* elif tok == 'global'
ParseGlobal ==
    /\ Dispatch("global")
    /\ GlobalBranch(Head0)
    /\ UNCHANGED <<freshscope, decorators>>

\* the decorator branch after stmt, tok = self._parse_statement()
DecoratorStatement(h, st) ==
    /\ Finish(st.exc, st.pos, h.nodes, h.scope)
    /\ decorators' = IF st.exc # "" THEN decorators
                     ELSE Append(decorators, st.stmt)

DecoratorBranch(h) == DecoratorStatement(h, ParseStatement(h.pos, FALSE, {}))

\* elif tok == '@'
ParseDecorator ==
    /\ Dispatch("decorator")
    /\ DecoratorBranch(Head0)
    /\ UNCHANGED freshscope

\* the iteration ends without reading a further token
Continue(h) == Finish("", h.pos, h.nodes, h.scope)

\* elif tok == 'pass': continue
ParsePass ==
    /\ Dispatch("pass")
    /\ Continue(Head0)
    /\ UNCHANGED <<freshscope, decorators>>

\* self.scope.add_docstr(tok), r its result
DocstrResult(h, r) ==
    IF r.exc # "" THEN Finish(r.exc, h.pos, h.nodes, h.scope)
    ELSE Finish("", h.pos, [h.nodes EXCEPT ![h.scope].docstr = r.d], h.scope)

DocstrBranch(h) ==
    IF ~freshscope THEN Continue(h)
    ELSE DocstrResult(h, add_docstr(CharsOf(tokens[h.pos].tok)))

\* elif token_type == tokenize.STRING: if freshscope: add_docstr(tok)
ParseDocstr ==
    /\ Dispatch("docstr")
    /\ DocstrBranch(Head0)
    /\ UNCHANGED <<freshscope, decorators>>

\* the statement branch after self._parse_statement(self.current)
StmtResult(h, st) ==
    IF st.exc # ""
    THEN /\ Finish(st.exc, st.pos, h.nodes, h.scope)
         /\ UNCHANGED freshscope
    ELSE /\ Finish("", st.pos,
                   IF IsNone(st.stmt) THEN h.nodes
                   ELSE add_statement(h.nodes, h.scope,
                                      StatementNode(st.stmt)),
                   h.scope)
         /\ freshscope' = FALSE

StmtBranch(h) == StmtResult(h, ParseStatement(h.pos, TRUE, {}))

\* elif token_type == tokenize.NAME or tok in statement_toks
ParseStmt ==
    /\ Dispatch("statement")
    /\ StmtBranch(Head0)
    /\ UNCHANGED decorators

\* no branch takes the token (NEWLINE, INDENT, ENDMARKER, an operator, ...)
SkipToken ==
    /\ Dispatch("none")
    /\ Continue(Head0)
    /\ UNCHANGED <<freshscope, decorators>>

-----------------------------------------------------------------------------
(* get_set_vars.  A list of names holds Name values and, for a star       *)
(* import, the Import itself.  Flow.get_set_vars extends self.set_vars in  *)
(* place, so each operator returns the tree with the list it returns.      *)

IsScope(n) == n.kind \in {"Scope", "Class", "Function", "Flow"}

\* the Import nd[id] as an element of a list of names
ImportRef(id) == [kind |-> "Import", id |-> id]

\* Import.get_names
get_names(nd, i) ==
    IF nd[i].star THEN <<ImportRef(i)>>
    ELSE IF ~IsNone(nd[i].alias) THEN <<nd[i].alias>>
    ELSE <<nd[i].namespace>>

\* for i in self.imports: n += i.get_names()
RECURSIVE ImportNames(_, _)
ImportNames(nd, imports) ==
    IF imports = <<>> THEN <<>>
    ELSE get_names(nd, Head(imports)) \o ImportNames(nd, Tail(imports))

\* [s.name for s in self.subscopes]
SubscopeNames(nd, subscopes) ==
    [i \in 1..Len(subscopes) |-> nd[subscopes[i]].name]

\* Scope.get_set_vars after the loop over self.statements, r its result
ScopeRest(self, r) ==
    [names |-> r.names \o SubscopeNames(r.nodes, r.nodes[self].subscopes)
                       \o r.nodes[self].global_vars
                       \o ImportNames(r.nodes, r.nodes[self].imports),
     nodes |-> r.nodes]

\* Flow.get_set_vars at its end: n is self.set_vars, extended in place
FlowSuper(self, n, r) ==
    [names |-> n \o r.names,
     nodes |-> [r.nodes EXCEPT ![self].set_vars = n \o r.names]]

RECURSIVE ScopeSetVars(_, _), StatementsSetVars(_, _, _),
          StatementsNext(_, _, _), FlowSetVars(_, _), FlowNext(_, _, _)

\* Flow.get_set_vars after n += self.next.get_set_vars(), r its result
FlowNext(self, n, r) ==
    FlowSuper(self, n \o r.names, ScopeSetVars(r.nodes, self))

\* Flow.get_set_vars
FlowSetVars(nd, self) ==
    FlowNext(self,
             nd[self].set_vars
                 \o (IF IsNone(nd[self].statement) THEN <<>>
                     ELSE nd[self].statement.set_vars),
             IF nd[self].next # NoNode THEN FlowSetVars(nd, nd[self].next)
             ELSE [names |-> <<>>, nodes |-> nd])

\* n += stmt.get_set_vars() for a Flow stmt, r its result
StatementsNext(rest, n, r) == StatementsSetVars(r.nodes, rest, n \o r.names)

\* for stmt in self.statements: n += stmt.get_set_vars()
StatementsSetVars(nd, statements, n) ==
    IF statements = <<>> THEN [names |-> n, nodes |-> nd]
    ELSE IF nd[Head(statements)].kind = "Flow"
    THEN StatementsNext(Tail(statements), n,
                        FlowSetVars(nd, Head(statements)))
    ELSE StatementsSetVars(nd, Tail(statements),
                           n \o nd[Head(statements)].set_vars)

\* Scope.get_set_vars
ScopeSetVars(nd, self) ==
    ScopeRest(self, StatementsSetVars(nd, nd[self].statements, <<>>))

\* for i, p in enumerate(self.params): n += p.set_vars or p.used_vars
RECURSIVE ParamNames(_)
ParamNames(params) ==
    IF params = <<>> THEN <<>>
    ELSE (IF Head(params).set_vars # <<>> THEN Head(params).set_vars
          ELSE Head(params).used_vars) \o ParamNames(Tail(params))

\* n += super(Function, self).get_set_vars(), r its result
FunctionRest(n, r) == [names |-> n \o r.names, nodes |-> r.nodes]

\* Function.get_set_vars
FunctionSetVars(nd, self) ==
    FunctionRest(ParamNames(nd[self].params), ScopeSetVars(nd, self))

\* self_name = s.params[0].used_vars[0].names[0] raises nothing
HasSelfName(s) ==
    s.kind = "Function" /\ s.params # <<>> /\ s.params[1].used_vars # <<>>

\* the names n2 with n2.names[0] == self_name and len(n2.names) == 2
SelfNames(names, self_name) ==
    SelectSeq(names, LAMBDA n2 : n2.names[1] = self_name /\ Len(n2.names) = 2)

\* n += super(Class, self).get_set_vars(), r its result
ClassRest(n, r) == [exc |-> "", names |-> n \o r.names, nodes |-> r.nodes]

RECURSIVE ClassLoop(_, _, _, _), ClassSub(_, _, _, _, _)

\* for n2 in s.get_set_vars(), r the result of the call: an Import has no
\* attribute names
ClassSub(self, rest, n, self_name, r) ==
    IF \E i \in 1..Len(r.names) : r.names[i].kind = "Import"
    THEN [exc |-> "AttributeError", names |-> <<>>, nodes |-> r.nodes]
    ELSE ClassLoop(r.nodes, self, rest, n \o SelfNames(r.names, self_name))

\* for s in self.subscopes of Class.get_set_vars
ClassLoop(nd, self, subscopes, n) ==
    IF subscopes = <<>> THEN ClassRest(n, ScopeSetVars(nd, self))
    ELSE IF HasSelfName(nd[Head(subscopes)])
    THEN ClassSub(self, Tail(subscopes), n,
                  nd[Head(subscopes)].params[1].used_vars[1].names[1],
                  FunctionSetVars(nd, Head(subscopes)))
    ELSE ClassLoop(nd, self, Tail(subscopes), n)

\* Class.get_set_vars
ClassSetVars(nd, self) == ClassLoop(nd, self, nd[self].subscopes, <<>>)

\* a call that returns the list r.names
Returns(r) == [exc |-> "", names |-> r.names, nodes |-> r.nodes]

\* self.get_set_vars(), by the class of self
get_set_vars(nd, self) ==
    IF nd[self].kind = "Class" THEN ClassSetVars(nd, self)
    ELSE IF nd[self].kind = "Function" THEN Returns(FunctionSetVars(nd, self))
    ELSE IF nd[self].kind = "Flow" THEN Returns(FlowSetVars(nd, self))
    ELSE Returns(ScopeSetVars(nd, self))

\* the call self.get_set_vars() of a client ends with outcome r
GetSetVarsResult(self, r) ==
    /\ result' = [op |-> "get_set_vars", self |-> self, exc |-> r.exc,
                  names |-> r.names]
    /\ nodes' = r.nodes
    /\ calls' = calls + 1
    /\ UNCHANGED <<tokens, pos, scope, freshscope, decorators, status, exc,
                   text, user_line, user_scope>>

\* a client calls get_set_vars on a scope of the tree parse returned
GetSetVars ==
    /\ status = "returned"
    /\ calls < MaxCalls
    /\ \E self \in 1..Len(nodes) :
           /\ IsScope(nodes[self])
           /\ GetSetVarsResult(self, get_set_vars(nodes, self))

-----------------------------------------------------------------------------
(* The source texts *)

Indents == {0, 4}

Line(ind, body) == [ind |-> ind, body |-> body]

\* the sequences of at most k elements of S
RECURSIVE Lists(_, _)
Lists(S, k) ==
    IF k = 0 THEN {<<>>}
    ELSE LET shorter == Lists(S, k - 1) IN
         shorter \cup
         { Append(l, x) : l \in {u \in shorter : Len(u) = k - 1}, x \in S }

CoreBodies ==
    { <<Nm("def"), Nm("f"), Op("("), Nm("a"), Op(")"), Op(":")>>,
      <<Nm("def"), Nm("f"), Op(":")>>,
      <<Nm("class"), Nm("A"), Op(":")>>,
      <<Nm("import"), Nm("m")>>,
      <<Nm("from"), Nm("m"), Nm("import"), Op("*")>>,
      <<Nm("for"), Nm("x"), Nm("in"), Nm("y"), Op(":")>>,
      <<Nm("if"), Nm("a"), Op(":")>>,
      <<Nm("if"), Nm("a"), Op(":"), Nm("x"), Op("="), Num("1")>>,
      <<Nm("else"), Op(":")>>,
      <<Nm("elif"), Nm("b"), Op(":")>>,
      <<Nm("global"), Nm("g")>>,
      <<Op("@"), Nm("d")>>,
      <<Nm("pass")>>,
      <<Str(Text(<<DQ, "d", DQ>>))>>,
      <<Str(Text(<<SQ, "d", SQ>>))>>,
      <<Str(Text(<<"r", DQ, "d", " ", " ", "e", DQ>>))>>,
      <<Nm("x"), Op("="), Num("1")>> }

\* the texts of at most MaxLines lines, each at one of the indentations
CoreTexts ==
    Lists({ Line(ind, body) : ind \in Indents, body \in CoreBodies }, MaxLines)

\* a dotted name, or the star of an import
NameTok(s) == IF s = "*" THEN Op("*") ELSE Nm(s)

RECURSIVE DottedToks(_)
DottedToks(names) ==
    IF Len(names) = 1 THEN <<NameTok(names[1])>>
    ELSE <<NameTok(names[1]), Op(".")>> \o DottedToks(Tail(names))

\* an item of a list: a dotted name and, if alias is not empty, as alias
Item(name, alias) == [name |-> name, alias |-> alias]

ItemToks(item) ==
    DottedToks(item.name)
        \o (IF item.alias = <<>> THEN <<>>
            ELSE <<Nm("as")>> \o DottedToks(item.alias))

RECURSIVE ListToks(_)
ListToks(items) ==
    IF items = <<>> THEN <<>>
    ELSE IF Len(items) = 1 THEN ItemToks(items[1])
    ELSE ItemToks(items[1]) \o <<Op(",")>> \o ListToks(Tail(items))

ImportItems ==
    { Item(name, alias) : name \in {<<"a">>, <<"a", "b">>},
                          alias \in {<<>>, <<"c">>} }

\* import n1 [as a1], ..., nk [as ak] (mod empty); from M import ...;
\* from M import *
ImportForms ==
    { [mod |-> mod, items |-> items] :
        mod \in {<<>>, <<"m">>},
        items \in Lists(ImportItems, MaxItems) \ {<<>>} }
    \cup { [mod |-> <<"m">>, items |-> <<Item(<<"*">>, <<>>)>>] }

ImportBody(f) ==
    (IF f.mod = <<>> THEN <<Nm("import")>>
     ELSE <<Nm("from")>> \o DottedToks(f.mod) \o <<Nm("import")>>)
        \o ListToks(f.items)

\* for t1, ..., tk in z:  and  for (t1, ..., tk) in z:
ForForms ==
    { [targets |-> targets, parens |-> parens] :
        targets \in Lists({Item(<<"x">>, <<>>), Item(<<"x", "y">>, <<>>)},
                          MaxItems),
        parens \in BOOLEAN }

ForBody(f) ==
    <<Nm("for")>>
        \o (IF f.parens THEN <<Op("(")>> ELSE <<>>)
        \o ListToks(f.targets)
        \o (IF f.parens THEN <<Op(")")>> ELSE <<>>)
        \o <<Nm("in"), Nm("z"), Op(":")>>

\* a flow header with its block on the line, then continuation headers
FlowHeads ==
    { <<Nm("if"), Nm("a"), Op(":"), Nm("x"), Op("="), Num("1")>>,
      <<Nm("try"), Op(":"), Nm("x"), Op("="), Num("1")>>,
      <<Nm("while"), Nm("a"), Op(":"), Nm("pass")>> }

FlowTails ==
    { <<Nm("else"), Op(":")>>,
      <<Nm("elif"), Nm("b"), Op(":")>>,
      <<Nm("except"), Nm("E"), Op(","), Nm("e"), Op(":")>>,
      <<Nm("except"), Op(":")>>,
      <<Nm("finally"), Op(":")>> }

FlowChains ==
    { <<Line(0, head)>> \o tails :
        head \in FlowHeads,
        tails \in Lists({ Line(0, body) : body \in FlowTails }, MaxLines)
                    \ {<<>>} }

\* a class, a method with a parameter, and one line of its block
MethodBodies ==
    { <<Nm("from"), Nm("m"), Nm("import"), Op("*")>>,
      <<Nm("import"), Nm("m")>>,
      <<Nm("a"), Op("."), Nm("x"), Op("="), Num("1")>>,
      <<Nm("x"), Op("="), Num("1")>>,
      <<Nm("pass")>> }

Methods ==
    { << Line(0, <<Nm("class"), Nm("A"), Op(":")>>),
         Line(4, <<Nm("def"), Nm("f"), Op("("), Nm("a"), Op(")"), Op(":")>>),
         Line(8, body) >> : body \in MethodBodies }

\* a parameter of a def header: a name, a name with a default (one of
\* them bracketed, with a comma), a name with an annotation
ParamForms ==
    { <<Nm("a")>>,
      <<Nm("a"), Op("="), Num("1")>>,
      <<Nm("a"), Op("="), Op("("), Num("1"), Op(","), Num("2"), Op(")")>>,
      <<Nm("a"), Op(":"), Nm("int")>> }

\* token sequences joined by commas
RECURSIVE CommaToks(_)
CommaToks(parts) ==
    IF parts = <<>> THEN <<>>
    ELSE IF Len(parts) = 1 THEN parts[1]
    ELSE parts[1] \o <<Op(",")>> \o CommaToks(Tail(parts))

\* def f ( p1 , ... , pn ) :
DefBody(params) ==
    <<Nm("def"), Nm("f"), Op("(")>> \o CommaToks(params) \o <<Op(")"), Op(":")>>

\* global n1 , ... , nk
GlobalBody(names) == <<Nm("global")>> \o CommaToks(names)

\* headers that deviate from the shape their reader expects, a def header
\* with an empty parameter slot, class headers
\* with superclasses, lines where a name is expected and another token
\* follows, and a with header
HeaderBodies ==
    { <<Nm("def"), Op("("), Nm("a"), Op(")"), Op(":")>>,
      <<Nm("def"), Nm("f"), Nm("a"), Op(":")>>,
      <<Nm("def"), Nm("f"), Op("("), Nm("a"), Op(")")>>,
      <<Nm("def"), Nm("f"), Op("("), Op(","), Nm("a"), Op(")"), Op(":")>>,
      <<Nm("class"), Nm("A"), Op("("), Nm("B"), Op(")"), Op(":")>>,
      <<Nm("class"), Nm("A"), Op("("), Nm("B"), Op(")")>>,
      <<Nm("class"), Op(":")>>,
      <<Nm("class"), Nm("A")>>,
      <<Nm("import"), Num("1")>>,
      <<Nm("import"), Nm("a"), Nm("as"), Num("1")>>,
      <<Nm("from"), Op("."), Nm("import"), Nm("a")>>,
      <<Nm("except"), Nm("E"), Op(","), Num("1"), Op(":")>>,
      <<Nm("with"), Nm("a"), Op(":")>> }

\* a def header, a global statement or one of HeaderBodies, as the only
\* line of the text or as the first line of the block of a class
HeaderTexts ==
    { <<Line(0, body)>> :
        body \in HeaderBodies
                 \cup { DefBody(params) : params \in Lists(ParamForms, MaxItems) }
                 \cup { GlobalBody(names) :
                           names \in Lists({<<Nm("g")>>, <<Nm("h")>>}, MaxItems)
                                     \ {<<>>} } }
    \cup { <<Line(0, <<Nm("class"), Nm("A"), Op(":")>>), Line(4, body)>> :
             body \in HeaderBodies }

\* lines read by _parse_statement: brackets around break tokens, keywords
\* after a dot and after as, comparisons and assignments, a string literal
\* with an equals sign, calls, and statement keywords
StatementBodies ==
    { <<Nm("x"), Op("="), Nm("d"), Op("["), Nm("a"), Op(":"), Nm("b"), Op("]")>>,
      <<Nm("f"), Op("("), Nm("a"), Op(";"), Nm("b"), Op(")")>>,
      <<Nm("x"), Op("="), Nm("a"), Op("."), Nm("def")>>,
      <<Nm("a"), Nm("as"), Nm("def")>>,
      <<Nm("a"), Op("=="), Str(Text(<<DQ, "a", "=", "b", DQ>>))>>,
      <<Nm("a"), Op("<="), Nm("b")>>,
      <<Nm("a"), Op("+="), Num("1")>>,
      <<Nm("a"), Op("="), Nm("b"), Op("="), Num("1")>>,
      <<Nm("f"), Op("("), Nm("a"), Op("="), Num("1"), Op(")")>>,
      <<Nm("return"), Nm("a"), Op("+"), Nm("b")>>,
      <<Nm("print"), Nm("a")>>,
      <<Nm("items"), Op("("), Op(")")>>,
      <<Nm("x"), Op("."), Nm("y"), Op("("), Nm("z"), Op(")")>>,
      <<Nm("with"), Nm("a"), Nm("as"), Nm("b"), Op(":")>> }

\* texts with decorator lines before a def header, a string literal after
\* the block of a class, and texts of one string literal
ScriptTexts ==
    LET def == <<Nm("def"), Nm("f"), Op("("), Nm("a"), Op(")"), Op(":")>>
        d   == <<Op("@"), Nm("d")>>
    IN  { <<Line(0, <<Op("@")>>), Line(0, def)>>,
          <<Line(0, d), Line(0, <<Op("@"), Nm("e")>>), Line(0, def)>>,
          <<Line(0, d), Line(0, <<Nm("x"), Op("="), Num("1")>>), Line(0, def)>>,
          <<Line(0, d), Line(0, <<Nm("def"), Nm("f"), Op(":")>>), Line(0, def)>>,
          <<Line(0, <<Nm("class"), Nm("A"), Op(":")>>),
            Line(4, <<Nm("pass")>>),
            Line(0, <<Str(Text(<<DQ, "d", DQ>>))>>)>>,
          <<Line(0, <<Str(Text(<<DQ, DQ>>))>>)>>,
          <<Line(0, <<Str(Text(<<DQ, DQ, DQ, "d", DQ, DQ, DQ>>))>>)>>,
          <<Line(0, <<Str(Text(<<"u", DQ, "d", "\t", "e", DQ>>))>>)>> }

\* a source text: its lines, and whether the last one ends with a newline
Programs ==
    { [lines |-> lines, newline |-> newline] :
        lines \in { t \in CoreTexts : t # <<>> /\ Indentable(t, 1, <<0>>) }
                  \cup { <<Line(0, ImportBody(f))>> : f \in ImportForms }
                  \cup { <<Line(0, ForBody(f))>> : f \in ForForms }
                  \cup FlowChains
                  \cup Methods
                  \cup HeaderTexts
                  \cup { <<Line(0, body)>> : body \in StatementBodies }
                  \cup ScriptTexts,
        newline \in BOOLEAN }

-----------------------------------------------------------------------------
(* The specification *)

\* PyFuzzyParser.__init__ up to the call of parse, and the head of parse;
\* user_line has its default, None
Init ==
    /\ text \in Programs
    /\ user_line = NoLine
    /\ user_scope = NoNode
    /\ tokens = Tokenize(text)
    /\ pos = 0
    /\ nodes = <<Scope(0, 0)>>
    /\ scope = top
    /\ freshscope = TRUE
    /\ decorators = <<>>
    /\ status = "parsing"
    /\ exc = ""
    /\ result = [op |-> "", self |-> NoNode, exc |-> "", names |-> <<>>]
    /\ calls = 0

Next ==
    \/ ParseDef
    \/ ParseClassDef
    \/ ParseImport
    \/ ParseFrom
    \/ ParseFor
    \/ ParseFlow
    \/ ParseGlobal
    \/ ParseDecorator
    \/ ParsePass
    \/ ParseDocstr
    \/ ParseStmt
    \/ SkipToken
    \/ EndOfInput
    \/ GetSetVars

Spec == Init /\ [][Next]_vars

\* PyFuzzyParser(code, user_line) with a line of the text as user_line
InitUser ==
    /\ text \in Programs
    /\ user_line \in 1..Len(text.lines)
    /\ user_scope = NoNode
    /\ tokens = Tokenize(text)
    /\ pos = 0
    /\ nodes = <<Scope(0, 0)>>
    /\ scope = top
    /\ freshscope = TRUE
    /\ decorators = <<>>
    /\ status = "parsing"
    /\ exc = ""
    /\ result = [op |-> "", self |-> NoNode, exc |-> "", names |-> <<>>]
    /\ calls = 0

SpecUser == InitUser /\ [][Next]_vars

-----------------------------------------------------------------------------
(* Claims *)

Range(s) == { s[i] : i \in 1..Len(s) }

\* an iteration of the loop of parse starts in this state
Iterating == status = "parsing" /\ pos + 1 <= NTok

\* the token the head h of the iteration hands to the dispatch is the
\* first token of a source line with this body
LineAt(h, body) ==
    /\ h.exc = ""
    /\ tokens[h.pos].line <= Len(text.lines)
    /\ text.lines[tokens[h.pos].line].body = body
    /\ tokens[h.pos].indent = text.lines[tokens[h.pos].line].ind
    /\ tokens[h.pos].tok = body[1].tok

\* C1: for every token sequence, no step of the parse loop or of a reader
\* it calls reaches an error state: parse never ends by raising an
\* exception other than the end of the token stream, which it catches.
C1_NoErrorState == status # "raised"

\* C2: parse terminates at the exhaustion of the tokenizer by returning
\* the module root: once the loop of parse has ended, every token has been
\* pulled and parse has returned self.top.
C2_Terminates == status # "parsing" => (status = "returned" /\ pos = NTok)

\* the Flow id is the next of another Flow
IsContinuation(id) == \E j \in 1..Len(nodes) : nodes[j].next = id

\* the collection of its parent that a node of this kind is added to
Collection(parent, kind) ==
    IF kind \in {"Function", "Class"} THEN parent.subscopes
    ELSE IF kind = "Import" THEN parent.imports
    ELSE parent.statements

\* following parent from id reaches the root within fuel links
RECURSIVE ReachesRoot(_, _)
ReachesRoot(id, fuel) ==
    IF id = top THEN TRUE
    ELSE IF fuel = 0 \/ nodes[id].parent = NoNode THEN FALSE
    ELSE ReachesRoot(nodes[id].parent, fuel - 1)

\* C3: every non-root node attached as a subscope, a statement or an
\* import has its parent set to the scope it was attached to, is exactly
\* once in that parent's collection, and reaches the root by parent links
\* without repeating a node.
C3_AttachmentIntegrity ==
    \A id \in 2..Len(nodes) :
        ~IsContinuation(id) =>
            /\ nodes[id].parent # NoNode
            /\ Cardinality({ i \in 1..Len(Collection(nodes[nodes[id].parent],
                                                     nodes[id].kind)) :
                               Collection(nodes[nodes[id].parent],
                                          nodes[id].kind)[i] = id }) = 1
            /\ ReachesRoot(id, Len(nodes))

\* the Flow id is reached from the Flow h by following next
RECURSIVE Continues(_, _)
Continues(h, id) ==
    IF nodes[h].next = NoNode THEN FALSE
    ELSE nodes[h].next = id \/ Continues(nodes[h].next, id)

\* C4: the Flow built for an else, except or finally clause is reached
\* from a head Flow, an element of the statements of its parent, by
\* following the continuation links, and is itself no element of the
\* statements of the head's parent.
C4_ContinuationNotStatement ==
    \A id \in 1..Len(nodes) :
        (nodes[id].kind = "Flow"
         /\ nodes[id].command \in {"else", "except", "finally"}) =>
            \E h \in 1..Len(nodes) :
                /\ nodes[h].kind = "Flow"
                /\ nodes[h].parent # NoNode
                /\ h \in Range(nodes[nodes[h].parent].statements)
                /\ Continues(h, id)
                /\ id \notin Range(nodes[nodes[h].parent].statements)

\* a try Flow whose continuation is an except Flow whose continuation is
\* a finally Flow, the current scope
C4_Witness ==
    \E h \in 1..Len(nodes) :
        /\ nodes[h].kind = "Flow"
        /\ nodes[h].command = "try"
        /\ nodes[h].next # NoNode
        /\ nodes[nodes[h].next].command = "except"
        /\ nodes[nodes[h].next].next # NoNode
        /\ nodes[nodes[nodes[h].next].next].command = "finally"
        /\ scope = nodes[nodes[h].next].next

ElifHeader == <<Nm("elif"), Nm("b"), Op(":")>>

\* the iteration with head h dispatches the header elif b: and the last
\* statement of the current scope is an if Flow
ElifAfterIf(h) ==
    /\ LineAt(h, ElifHeader)
    /\ h.nodes[h.scope].statements # <<>>
    /\ h.nodes[Last(h.nodes[h.scope].statements)].kind = "Flow"
    /\ h.nodes[Last(h.nodes[h.scope].statements)].command = "if"

\* the step builds a Flow elif, the continuation of that if Flow, and
\* enters it; the statements of the enclosing scope stay as they are
ElifBuilt(h) ==
    /\ Len(nodes') = Len(h.nodes) + 1
    /\ nodes'[Len(nodes')].kind = "Flow"
    /\ nodes'[Len(nodes')].command = "elif"
    /\ nodes'[Last(h.nodes[h.scope].statements)].next = Len(nodes')
    /\ scope' = Len(nodes')
    /\ nodes'[h.scope].statements = h.nodes[h.scope].statements

C5_Step(h) == ElifAfterIf(h) => ElifBuilt(h)

\* C5: an elif header that follows an if block produces a Flow with
\* command elif, linked as continuation of the if Flow and made the
\* current scope; no Statement is added to the enclosing scope for it.
C5_ElifIsFlow == [][Iterating => C5_Step(Head0)]_vars

\* the nodes from id to the end of its parent chain (at most fuel of them)
RECURSIVE ParentChain(_, _)
ParentChain(id, fuel) ==
    IF id = NoNode \/ fuel = 0 THEN {}
    ELSE {id} \cup ParentChain(nodes[id].parent, fuel - 1)

\* the scopes that are open: self.scope and its ancestors
ActivePath == ParentChain(scope, Len(nodes))

\* the non-root scopes that have been popped off the active path
Closed == { id \in 2..Len(nodes) : IsScope(nodes[id]) /\ id \notin ActivePath }

C6_State ==
    /\ scope \in 1..Len(nodes)
    /\ top \in ActivePath
    /\ nodes[top].indent = 0
    /\ nodes[top].parent = NoNode
    /\ nodes[top].line_end = NoLine
    /\ \A id \in ActivePath : nodes[id].line_end = NoLine
    /\ \A id \in Closed : /\ nodes[id].line_end # NoLine
                          /\ nodes[id].line_end >= nodes[id].line_nr

C6_Step == \A id \in Closed : scope' # id

\* C6: in every state the current scope is a node whose parent chain ends
\* at the root; the root has indent 0, no parent and no line_end; every
\* scope from the current scope up to the root has no line_end; every
\* other non-root scope has a line_end, not less than its line_nr, and no
\* step makes it the current scope again.
C6_ScopeDiscipline == []C6_State /\ [][C6_Step]_vars

\* a scope has been popped and stamped with a line_end after its line_nr
\* while another non-root scope is the current one
C6_Witness ==
    /\ Closed # {}
    /\ scope # top
    /\ \E id \in Closed : nodes[id].line_end > nodes[id].line_nr

\* C7: the names get_set_vars returns for a scope of the finished tree
\* include the name of every subscope, every set_vars name of every
\* Statement in its statements, every parameter name when the scope is a
\* Function, and every global name when the scope is the root.
C7_SetVarsInclude ==
    result.op = "get_set_vars" =>
        /\ result.exc = ""
        /\ \A i \in Range(nodes[result.self].subscopes) :
               nodes[i].name \in Range(result.names)
        /\ \A i \in Range(nodes[result.self].statements) :
               nodes[i].kind = "Statement" =>
                   Range(nodes[i].set_vars) \subseteq Range(result.names)
        /\ nodes[result.self].kind = "Function" =>
               \A i \in 1..Len(nodes[result.self].params) :
                   \E n \in Range(result.names) :
                       /\ n.kind = "Name"
                       /\ n.names[1]
                            \in { u.names[1] :
                                    u \in Range(nodes[result.self].params[i].set_vars)
                                          \cup Range(nodes[result.self].params[i].used_vars) }
        /\ result.self = top =>
               Range(nodes[top].global_vars) \subseteq Range(result.names)

\* C8: normalizing a stored docstring again stores the same docstring.
C8_NormalizeIdempotent ==
    \A id \in 1..Len(nodes) :
        nodes[id].docstr # <<>> =>
            add_docstr(nodes[id].docstr) = [exc |-> "", d |-> nodes[id].docstr]

\* the Import n is the one the i-th item of the import line f asks for
ImportOf(n, f, i) ==
    /\ n.kind = "Import"
    /\ IF f.mod # <<>> /\ f.items[i].name = <<"*">>
       THEN n.star /\ IsNone(n.namespace)
       ELSE ~n.star /\ ~IsNone(n.namespace)
            /\ n.namespace.names = f.items[i].name
    /\ IF f.items[i].alias = <<>> THEN IsNone(n.alias)
       ELSE ~IsNone(n.alias) /\ n.alias.names = f.items[i].alias
    /\ IF f.mod = <<>> THEN n.from_ns = EmptyStr
       ELSE n.from_ns.kind = "Name" /\ n.from_ns.names = f.mod

\* the step adds one Import per item of f to the current scope, in order
ImportsBuilt(h, f) ==
    /\ Len(nodes') = Len(h.nodes) + Len(f.items)
    /\ \A i \in 1..Len(f.items) : ImportOf(nodes'[Len(h.nodes) + i], f, i)
    /\ nodes'[h.scope].imports =
           h.nodes[h.scope].imports
               \o [i \in 1..Len(f.items) |-> Len(h.nodes) + i]
    /\ scope' = h.scope

C9_Step(h) ==
    \A f \in ImportForms : LineAt(h, ImportBody(f)) => ImportsBuilt(h, f)

\* no Import has star set and the empty from_ns
C9_State ==
    \A id \in 1..Len(nodes) :
        (nodes[id].kind = "Import" /\ nodes[id].star) =>
            nodes[id].from_ns # EmptyStr

\* C9: the iteration that dispatches a line import n1 [as a1], ..., nk
\* [as ak] or from M import n1 [as a1], ..., nk adds exactly k Imports to
\* the current scope, in order, with namespace ni, alias ai or none,
\* from_ns M or empty, and star set (with no namespace) exactly for the
\* name * of a from line; no Import ever has star set and an empty from_ns.
C9_ImportNodes == []C9_State /\ [][Iterating => C9_Step(Head0)]_vars

\* the step builds and enters a Flow for whose targets are those of f
ForBuilt(h, f) ==
    /\ Len(nodes') = Len(h.nodes) + 1
    /\ nodes'[Len(nodes')].kind = "Flow"
    /\ nodes'[Len(nodes')].command = "for"
    /\ [i \in 1..Len(nodes'[Len(nodes')].set_vars) |->
            nodes'[Len(nodes')].set_vars[i].names]
         = [i \in 1..Len(f.targets) |-> f.targets[i].name]
    /\ ~IsNone(nodes'[Len(nodes')].statement)
    /\ nodes'[Len(nodes')].statement.code = "z"
    /\ scope' = Len(nodes')

C10_Step(h) == \A f \in ForForms : LineAt(h, ForBody(f)) => ForBuilt(h, f)

\* C10: the iteration that dispatches a header for t1, ..., tk in z: with
\* or without parentheses around the targets builds and enters a Flow for
\* whose targets are exactly the dotted names t1, ..., tk in order (no
\* punctuation among them, none for k = 0) and whose statement is z.
C10_ForTargets == [][Iterating => C10_Step(Head0)]_vars

\* the text of a token sequence as _parse_statement collects it
RECURSIVE Concat(_)
Concat(toks) ==
    IF toks = <<>> THEN "" ELSE toks[1].tok \o Concat(Tail(toks))

\* the step builds and enters a Function f whose params are the texts of
\* the parameters, in order
FunctionBuilt(h, params) ==
    /\ Len(nodes') = Len(h.nodes) + 1
    /\ nodes'[Len(nodes')].kind = "Function"
    /\ nodes'[Len(nodes')].name.names = <<"f">>
    /\ [i \in 1..Len(nodes'[Len(nodes')].params) |->
            nodes'[Len(nodes')].params[i].code]
         = [i \in 1..Len(params) |-> Concat(params[i])]
    /\ nodes'[h.scope].subscopes = Append(h.nodes[h.scope].subscopes, Len(nodes'))
    /\ scope' = Len(nodes')

C11_Step(h) ==
    \A params \in Lists(ParamForms, MaxItems) :
        LineAt(h, DefBody(params)) => FunctionBuilt(h, params)

\* C11: the iteration that dispatches a header def f ( p1 , ... , pn ) :
\* whose parameters may have a default or an annotation builds a Function
\* named f with exactly n params, in order, the i-th with the text of pi.
C11_DefParams == [][Iterating => C11_Step(Head0)]_vars

\* def headers with no name, no opening parenthesis, or no colon
MalformedDefs ==
    { <<Nm("def"), Op("("), Nm("a"), Op(")"), Op(":")>>,
      <<Nm("def"), Nm("f"), Op(":")>>,
      <<Nm("def"), Nm("f"), Nm("a"), Op(":")>>,
      <<Nm("def"), Nm("f"), Op("("), Nm("a"), Op(")")>> }

C12_Step(h) ==
    \A body \in MalformedDefs :
        LineAt(h, body) =>
            /\ nodes' = h.nodes
            /\ scope' = h.scope
            /\ status' # "raised"
            /\ pos' > h.pos
            /\ freshscope' = freshscope /\ decorators' = decorators

\* C12: the iteration that dispatches a def header with no name, no
\* opening parenthesis or no colon adds no node, leaves the current scope
\* where the dedent handling put it, raises nothing and ends behind the
\* tokens the reader pulled.
C12_MalformedDef == [][Iterating => C12_Step(Head0)]_vars

\* a malformed def header on the second line, in the block of a class:
\* the class is the current scope, has no subscope, and the dispatch is
\* past the def token
C12_Witness ==
    /\ Len(text.lines) = 2
    /\ text.lines[2].body \in MalformedDefs
    /\ status = "parsing"
    /\ pos > 0
    /\ tokens[pos].line = 2
    /\ tokens[pos].type \notin {"INDENT", "DEDENT"}
    /\ tokens[pos].tok # "def"
    /\ scope = 2
    /\ nodes[2].kind = "Class"
    /\ nodes[2].subscopes = <<>>

\* the class headers of the shape NAME : or NAME ( supers ) :
ClassShapes ==
    { <<Nm("class"), Nm("A"), Op(":")>>,
      <<Nm("class"), Nm("A"), Op("("), Nm("B"), Op(")"), Op(":")>> }

\* class headers of another shape
ClassMisshapes ==
    { <<Nm("class"), Nm("A"), Op("("), Nm("B"), Op(")")>>,
      <<Nm("class"), Op(":")>>,
      <<Nm("class"), Nm("A")>> }

\* the step builds and enters a Class
ClassBuilt(h) ==
    /\ Len(nodes') = Len(h.nodes) + 1
    /\ nodes'[Len(nodes')].kind = "Class"
    /\ scope' = Len(nodes')

C13_Step(h) ==
    /\ \A body \in ClassShapes : LineAt(h, body) => ClassBuilt(h)
    /\ \A body \in ClassMisshapes :
           LineAt(h, body) => (nodes' = h.nodes /\ scope' = h.scope)

\* C13: the iteration that dispatches a class header builds and enters a
\* Class if the header has the shape NAME : or NAME ( supers ) :, and adds
\* no node if it has another shape.
C13_ClassShape == [][Iterating => C13_Step(Head0)]_vars

\* lines on which the name reader, called without a pre-read token, finds
\* a token that is neither a name nor *
NoNameBodies ==
    { <<Nm("import"), Num("1")>>,
      <<Nm("import"), Nm("a"), Nm("as"), Num("1")>>,
      <<Nm("from"), Op("."), Nm("import"), Nm("a")>>,
      <<Nm("except"), Nm("E"), Op(","), Num("1"), Op(":")>> }

C14_Step(h) ==
    \A body \in NoNameBodies :
        LineAt(h, body) =>
            /\ status' # "raised"
            /\ body[1].tok = "from" => nodes' = h.nodes

\* C14: the iteration that dispatches a line on which the name reader
\* finds no name (after import, after as, after from, after except E ,)
\* reaches no error state, and a from line of this kind adds no Import.
C14_NoName == [][Iterating => C14_Step(Head0)]_vars

\* the Names of the Statements of the tree
TreeNames ==
    UNION { Range(nodes[id].set_vars) \cup Range(nodes[id].used_vars)
              \cup Range(nodes[id].used_funcs) :
            id \in { i \in 1..Len(nodes) : nodes[i].kind = "Statement" } }

\* C15: two Names are equal exactly when they have the same names, the
\* same indent and the same line_nr.
C15_NameEquality ==
    \A a, b \in TreeNames :
        Name_eq(a, b) <=> /\ a.names = b.names
                          /\ a.indent = b.indent
                          /\ a.line_nr = b.line_nr

\* the scopes opened before user_line and not closed at or before it
OpenBefore ==
    { id \in 1..Len(nodes) :
        /\ IsScope(nodes[id])
        /\ id = top \/ nodes[id].line_nr < user_line
        /\ nodes[id].line_end = NoLine \/ nodes[id].line_end > user_line }

\* the scopes opened by a header on user_line
OpenedOn ==
    { id \in 2..Len(nodes) :
        IsScope(nodes[id]) /\ nodes[id].line_nr = user_line }

\* the deepest scope of S
Innermost(S) ==
    CHOOSE id \in S :
        \A j \in S : Cardinality(ParentChain(j, Len(nodes)))
                        <= Cardinality(ParentChain(id, Len(nodes)))

\* C16: after parse has returned, user_scope is the innermost scope open
\* at user_line: the scope that is current after the dedent handling of
\* that line, or a scope a header on that line opens; never a scope that a
\* dedent on that line closes.
C16_UserScope ==
    (status = "returned" /\ user_line # NoLine) =>
        user_scope \in {Innermost(OpenBefore)} \cup OpenedOn

\* C17: a call of get_set_vars leaves every node of the tree as it is.
C17_ReadOnly == [][calls' # calls => nodes' = nodes]_vars

\* the step appends the names to the global_vars of the root
GlobalsAdded(h, names) ==
    [i \in 1..Len(nodes'[top].global_vars) |-> nodes'[top].global_vars[i].names]
      = [i \in 1..Len(h.nodes[top].global_vars) |->
             h.nodes[top].global_vars[i].names]
          \o [i \in 1..Len(names) |-> <<names[i][1].tok>>]

C18_Step(h) ==
    \A names \in Lists({<<Nm("g")>>, <<Nm("h")>>}, MaxItems) \ {<<>>} :
        LineAt(h, GlobalBody(names)) => GlobalsAdded(h, names)

C18_State ==
    /\ \A id \in 2..Len(nodes) : nodes[id].global_vars = <<>>
    /\ \A i \in 1..Len(nodes[top].global_vars) :
           nodes[top].global_vars[i].names # <<"global">>

\* C18: the iteration that dispatches global n1 , ... , nk, at any depth,
\* appends every ni to the global_vars of the root; the word global is no
\* element of them, and the global_vars of every other node stay empty.
C18_Globals == []C18_State /\ [][Iterating => C18_Step(Head0)]_vars

\* the Flows reached from id by at most fuel continuation links
RECURSIVE Chain(_, _)
Chain(id, fuel) ==
    IF nodes[id].next = NoNode \/ fuel = 0 THEN {}
    ELSE {nodes[id].next} \cup Chain(nodes[id].next, fuel - 1)

\* C19: every Flow reached by continuation links from a Flow h has the
\* parent of h; no Flow reaches itself; every Flow is the continuation of
\* at most one Flow.
C19_ChainShape ==
    \A h \in 1..Len(nodes) :
        /\ \A id \in Chain(h, Len(nodes)) :
               /\ nodes[id].kind = "Flow"
               /\ nodes[id].parent = nodes[h].parent
        /\ h \notin Chain(h, Len(nodes))
        /\ Cardinality({ j \in 1..Len(nodes) : nodes[j].next = h }) <= 1

\* a chain of three Flows below the root, the last one the current scope
C19_Witness ==
    \E h \in 1..Len(nodes) :
        /\ Cardinality(Chain(h, Len(nodes))) = 2
        /\ scope \in Chain(h, Len(nodes))
        /\ nodes[scope].parent = top
        /\ nodes[h].parent = top

\* headers of continuation clauses and of head flows, ending in a colon
ContinuationHeaders ==
    { <<Nm("else"), Op(":")>>,
      <<Nm("except"), Op(":")>>,
      <<Nm("except"), Nm("E"), Op(","), Nm("e"), Op(":")>>,
      <<Nm("finally"), Op(":")>> }

HeadHeaders ==
    { <<Nm("if"), Nm("a"), Op(":")>>,
      <<Nm("with"), Nm("a"), Op(":")>> }

\* the step builds a Flow with the command of the header and enters it
FlowBuilt(h, body) ==
    /\ Len(nodes') = Len(h.nodes) + 1
    /\ nodes'[Len(nodes')].kind = "Flow"
    /\ nodes'[Len(nodes')].command = body[1].tok
    /\ scope' = Len(nodes')

\* the new Flow is the continuation of the end of the chain that starts
\* at the last statement of the current scope
Chained(h) ==
    /\ h.nodes[h.scope].statements # <<>>
    /\ nodes'[ChainEnd(h.nodes, Last(h.nodes[h.scope].statements))].next
         = Len(nodes')
    /\ nodes'[h.scope].statements = h.nodes[h.scope].statements

C20_Step(h) ==
    /\ \A body \in ContinuationHeaders :
           LineAt(h, body) => (FlowBuilt(h, body) /\ Chained(h))
    /\ \A body \in HeadHeaders :
           LineAt(h, body) =>
               /\ FlowBuilt(h, body)
               /\ nodes'[h.scope].statements
                    = Append(h.nodes[h.scope].statements, Len(nodes'))

\* C20: the iteration that dispatches an else, except or finally header
\* ending in a colon links the new Flow as continuation of the end of the
\* chain that starts at the last statement of the current scope, leaves
\* the statements of the current scope as they are and enters the new
\* Flow; for if and with (while, try) the new Flow is appended to the
\* statements of the current scope and entered.
C20_FlowAttach == [][Iterating => C20_Step(Head0)]_vars

\* the scopes the head h of the iteration closes
ClosedBy(h) ==
    { id \in 1..Len(nodes) :
        nodes[id].line_end = NoLine /\ h.nodes[id].line_end # NoLine }

\* the tokens the head h of the iteration pulls
Pulled(h) == (pos + 1)..(IF h.exc = "" THEN h.pos ELSE NTok)

C21_Head(h) ==
    /\ \A id \in ClosedBy(h) :
           /\ id # top
           /\ id \in ActivePath
           /\ h.scope \in ParentChain(nodes[id].parent, Len(nodes))
           /\ \E p \in Pulled(h) :
                  /\ tokens[p].indent <= nodes[id].indent
                  /\ tokens[p].line = h.nodes[id].line_end
    /\ h.scope # scope => scope \in ClosedBy(h)
    /\ h.exc = "" /\ tokens[h.pos].type = "NAME" =>
           h.scope = top \/ tokens[h.pos].indent > nodes[h.scope].indent

\* C21: the dedent handling at the head of an iteration closes a scope
\* (stamps its line_end with the line of a pulled token and moves to its
\* parent) only on a token whose column is at most the indent of that
\* scope, and never the root; when the dispatch starts on an identifier
\* token, the current scope is the root or the column of the token is
\* greater than the indent of the current scope, with or without a DEDENT
\* token.
C21_DedentGuard == Iterating => C21_Head(Head0)

C21_Recovered(h) ==
    /\ h.exc = ""
    /\ tokens[h.pos].type = "NAME"
    /\ h.pos = pos + 1
    /\ scope \in ClosedBy(h)
    /\ h.scope = nodes[scope].parent

\* an iteration starts on an identifier token that no DEDENT token
\* precedes and closes the current scope
C21_Witness == Iterating /\ C21_Recovered(Head0)

\* the bracket depth at tokens[i] of a statement that starts at tokens[p]
RECURSIVE Depth(_, _)
Depth(p, i) ==
    IF i <= p THEN 0
    ELSE Depth(p, i - 1)
         + (IF tokens[i - 1].tok \in {"{", "(", "["} THEN 1
            ELSE IF tokens[i - 1].tok \in {"}", ")", "]"} THEN -1
            ELSE 0)

\* tokens[i] ends the statement that starts at tokens[p]
Breaks(p, i, breaks) ==
    \/ tokens[i].tok \in always_break
    \/ tokens[i].tok \in breaks /\ Depth(p, i) = 0

\* the first token that ends the statement that starts at tokens[p]
StopAt(p, breaks) ==
    CHOOSE i \in p..NTok :
        Breaks(p, i, breaks) /\ \A j \in p..(i - 1) : ~Breaks(p, j, breaks)

\* a line with a colon between brackets, and the text of its statement
SliceBody ==
    <<Nm("x"), Op("="), Nm("d"), Op("["), Nm("a"), Op(":"), Nm("b"), Op("]")>>

C22_Step(h) ==
    /\ Dispatched(h, "statement")
       /\ (\E i \in h.pos..NTok : Breaks(h.pos, i, {"\n", ":", ")"}))
           => /\ status' # "raised"
              /\ pos' = StopAt(h.pos, {"\n", ":", ")"})
    /\ LineAt(h, SliceBody) /\ text.newline
           => /\ Len(nodes') = Len(h.nodes) + 1
              /\ nodes'[Len(nodes')].kind = "Statement"
              /\ nodes'[Len(nodes')].code = Concat(SliceBody)
    /\ LineAt(h, DefBody(<<<<Nm("a"), Op("="), Op("("), Num("1"), Op(","),
                             Num("2"), Op(")")>>>>))
           => FunctionBuilt(h, <<<<Nm("a"), Op("="), Op("("), Num("1"),
                                   Op(","), Num("2"), Op(")")>>>>)

\* C22: the statement reader stops at the first token that is in the
\* always-break set, whatever the bracket depth, or that is a newline, a
\* colon, a closing parenthesis or an extra break at bracket depth 0; a
\* colon or an extra break between brackets does not end the statement
\* and is part of its text.
C22_StatementBreaks == [][Iterating => C22_Step(Head0)]_vars

\* an assignment operator: an operator with an equals sign that is no
\* comparison
IsAssignment(t) == t.type = "OP" /\ t.tok \in {"=", "+=", "-=", "*=", "/="}

\* the token that starts the name n
TokenOf(n) ==
    CHOOSE i \in 1..NTok :
        /\ tokens[i].type = "NAME"
        /\ tokens[i].line = n.line_nr
        /\ tokens[i].indent = n.indent

\* an assignment operator follows the name n before the cursor p
AssignedBefore(n, p) ==
    \E j \in (TokenOf(n) + 1)..p : IsAssignment(tokens[j])

\* the name n follows the token as
BoundByAs(n) == TokenOf(n) > 1 /\ tokens[TokenOf(n) - 1].tok = "as"

\* the statement the branch has read and added
C23_Statement(h, st) ==
    /\ st.kind = "Statement"
    /\ \A n \in Range(st.set_vars) : AssignedBefore(n, pos') \/ BoundByAs(n)
    /\ \A n \in Range(st.used_vars) : ~AssignedBefore(n, pos')

C23_Step(h) ==
    Dispatched(h, "statement") /\ Len(nodes') = Len(h.nodes) + 1
        => C23_Statement(h, nodes'[Len(nodes')])

\* C23: in one call of the statement reader the names read so far become
\* the written names, and the read names are emptied, exactly at an
\* assignment operator (an operator with an equals sign other than ==, !=,
\* <=, >=): a name of the statement is among its written names only if an
\* assignment operator follows it or as precedes it, and no name that an
\* assignment operator follows stays among its read names; an identifier,
\* a string literal, a number, a bracket or a comparison promotes nothing.
C23_Promotion == [][Iterating => C23_Step(Head0)]_vars

\* the last segment of the dotted name that starts at tokens[i]
RECURSIVE ChainLast(_)
ChainLast(i) ==
    IF i + 2 <= NTok /\ tokens[i + 1].tok = "." /\ tokens[i + 2].type = "NAME"
    THEN ChainLast(i + 2) ELSE i

\* the segments of the dotted name from tokens[i] to tokens[e]
RECURSIVE Segments(_, _)
Segments(i, e) ==
    IF i > e THEN <<>> ELSE <<tokens[i].tok>> \o Segments(i + 2, e)

\* the dotted names among the tokens i .. q - 1, in order, apart from the
\* statement keywords and as: each with its first and last token
RECURSIVE Chains(_, _)
Chains(i, q) ==
    IF i >= q THEN <<>>
    ELSE IF tokens[i].type = "NAME"
            /\ tokens[i].tok \notin {"return", "yield", "del", "raise",
                                     "assert", "print", "exec", "as"}
    THEN <<[first |-> i, last |-> ChainLast(i)]>> \o Chains(ChainLast(i) + 1, q)
    ELSE Chains(i + 1, q)

IsCalled(c) == c.last + 1 <= NTok /\ tokens[c.last + 1].tok = "("
IsRead(c) == ~IsCalled(c) /\ tokens[c.first].tok # "global"
AfterAs(c) == c.first > 1 /\ tokens[c.first - 1].tok = "as"
NotAfterAs(c) == ~AfterAs(c)

\* the names of the Names of a list, and of the chains of a list
NamesOf(list) == [i \in 1..Len(list) |-> list[i].names]
SegmentsOf(cs) == [i \in 1..Len(cs) |-> Segments(cs[i].first, cs[i].last)]

\* no token from p to q moves the read names to the written names
NoPromotion(p, q) ==
    \A j \in p..q : ~IsAssignment(tokens[j]) /\ tokens[j].type # "STRING"

\* the statement st has the chains cs in its two lists
Recorded(st, cs) ==
    /\ NamesOf(st.used_funcs) = SegmentsOf(SelectSeq(cs, IsCalled))
    /\ NamesOf(st.used_vars) = SegmentsOf(SelectSeq(cs, IsRead))

\* the token that ends the statement of the flow header at tokens[h.pos]
HeaderEnd(h) ==
    StopAt(h.pos + 1,
           {"\n", ":", ")"}
               \cup (IF tokens[h.pos].tok = "except" THEN {","} ELSE {}))

\* the statement the branch that starts at h has read from tokens[p] on
\* and the chains it has to record
C24_Read(h, p, st, cs) ==
    ~IsNone(st) /\ NoPromotion(p, pos') => Recorded(st, cs)

C24_All(h) ==
    /\ (Dispatched(h, "statement") \/ Dispatched(h, "global"))
       /\ Len(nodes') = Len(h.nodes) + 1
           => C24_Read(h, h.pos, nodes'[Len(nodes')], Chains(h.pos, pos'))
    /\ Dispatched(h, "flow") /\ Len(nodes') = Len(h.nodes) + 1
           => C24_Read(h, h.pos + 1, nodes'[Len(nodes')].statement,
                       Chains(h.pos + 1, HeaderEnd(h)))

C24_NotAs(h) ==
    /\ (Dispatched(h, "statement") \/ Dispatched(h, "global"))
       /\ Len(nodes') = Len(h.nodes) + 1
           => C24_Read(h, h.pos, nodes'[Len(nodes')],
                       SelectSeq(Chains(h.pos, pos'), NotAfterAs))
    /\ Dispatched(h, "flow") /\ Len(nodes') = Len(h.nodes) + 1
           => C24_Read(h, h.pos + 1, nodes'[Len(nodes')].statement,
                       SelectSeq(Chains(h.pos + 1, HeaderEnd(h)), NotAfterAs))

RECURSIVE DecoratorRun(_)
DecoratorRun(l) ==
    IF l >= 1 /\ text.lines[l].body[1].tok = "@"
    THEN DecoratorRun(l - 1)
         \o (IF Len(text.lines[l].body) = 1 THEN <<>>
             ELSE <<Concat(Tail(text.lines[l].body))>>)
    ELSE <<>>

\* the texts of the Statements of a list of decorators
CodesOf(list) ==
    LET stmts == SelectSeq(list, LAMBDA d : ~IsNone(d))
    IN  [i \in 1..Len(stmts) |-> stmts[i].code]

\* the step opens a Function or a Class
Opens(h) ==
    /\ Dispatched(h, "def") \/ Dispatched(h, "class")
    /\ Len(nodes') = Len(h.nodes) + 1
    /\ nodes'[Len(nodes')].kind \in {"Function", "Class"}

C25_Step(h) ==
    Opens(h) =>
        /\ CodesOf(nodes'[Len(nodes')].decorators)
             = DecoratorRun(tokens[h.pos].line - 1)
        /\ decorators' = <<>>

\* C25: a Function or Class opened by a successful def or class gets as
\* decorators the Statements of the lines starting with @ that directly
\* precede its header, in order, and no others: after every successful
\* def or class the pending decorators are empty, and a scope whose header
\* no @ line directly precedes has no decorators.
C25_Decorators == [][Iterating => C25_Step(Head0)]_vars

\* the scopes whose docstr the step sets or replaces
Documented == { id \in 1..Len(nodes) : nodes'[id].docstr # nodes[id].docstr }

\* nothing has been processed in the scope sc since it was opened
Untouched(sc) ==
    /\ sc.imports = <<>>
    /\ sc.statements = <<>>
    /\ sc.subscopes = <<>>

C26_Step(h) ==
    Dispatched(h, "docstr") =>
        /\ Documented \subseteq {h.scope}
        /\ Documented # {} =>
               /\ h.scope = scope
               /\ nodes[scope].kind # "Flow"
               /\ Untouched(nodes[scope])

\* C26: a string literal at the start of a line becomes the docstring of
\* the current scope only directly after that scope was opened: not when
\* an import, a statement, a flow header or a nested scope has been
\* processed in it, and not when the current scope has changed by a
\* dedent or by entering a Flow.
C26_Docstring == [][Iterating => C26_Step(Head0)]_vars

\* the index of the first quote character of a string literal
FirstQuote(chars) ==
    CHOOSE q \in 1..Len(chars) :
        chars[q] \in {SQ, DQ} /\ \A j \in 1..(q - 1) : chars[j] \notin {SQ, DQ}

\* the number of quote characters that open the literal: three or one
QuoteLen(chars, q) ==
    IF Len(chars) >= q + 5 /\ chars[q + 1] = chars[q] /\ chars[q + 2] = chars[q]
    THEN 3 ELSE 1

\* the characters between the quotes: neither the prefix nor the quotes
Content(chars, q) ==
    SubSeq(chars, q + QuoteLen(chars, q), Len(chars) - QuoteLen(chars, q))

\* newlines and tabs are blanks
Blanked(c) == [i \in 1..Len(c) |-> IF c[i] \in {"\n", "\t"} THEN " " ELSE c[i]]

\* a run of blanks is one blank
RECURSIVE Squeezed(_)
Squeezed(c) ==
    IF Len(c) < 2 THEN c
    ELSE IF c[1] = " " /\ c[2] = " " THEN Squeezed(Tail(c))
    ELSE <<c[1]>> \o Squeezed(Tail(c))

\* without the quotes and the white space at both ends
RECURSIVE Trimmed(_)
Trimmed(c) ==
    IF c = <<>> THEN c
    ELSE IF c[1] \in {SQ, DQ, "\t", " "} THEN Trimmed(Tail(c))
    ELSE IF c[Len(c)] \in {SQ, DQ, "\t", " "}
    THEN Trimmed(SubSeq(c, 1, Len(c) - 1))
    ELSE c

\* the docstring of a string literal
Normalized(chars) ==
    Trimmed(Squeezed(Blanked(Content(chars, FirstQuote(chars)))))

C27_Step(h) ==
    Dispatched(h, "docstr") /\ freshscope =>
        /\ status' # "raised"
        /\ nodes'[h.scope].docstr = Normalized(CharsOf(tokens[h.pos].tok))

\* C27: for every string literal (with or without a prefix, in single or
\* double quotes, empty or not) that becomes a docstring, the value stored
\* is its content without prefix and quotes, newlines and tabs turned into
\* blanks, runs of blanks collapsed and the ends trimmed; a single-quoted
\* and a double-quoted literal with the same content store the same.
C27_Normalization == [][Iterating => C27_Step(Head0)]_vars

\* every element of the list is a Statement
AllStatements(list) ==
    \A i \in 1..Len(list) : ~IsNone(list[i]) /\ list[i].kind = "Statement"

\* C28: no child collection of a node holds a none entry: the elements of
\* statements are Statements or Flows, the elements of params, supers and
\* decorators are Statements, also when the statement reader has returned
\* no statement (a line with only @, an empty parameter slot).
C28_NoNoneChildren ==
    \A id \in 1..Len(nodes) :
        /\ \A i \in 1..Len(nodes[id].statements) :
               /\ nodes[id].statements[i] \in 1..Len(nodes)
               /\ nodes[nodes[id].statements[i]].kind \in {"Statement", "Flow"}
        /\ AllStatements(nodes[id].params)
        /\ AllStatements(nodes[id].supers)
        /\ AllStatements(nodes[id].decorators)

====
